---- MODULE Spec2Model ----
(***************************************************************************)
(* Streaming chat orchestration of chat-llm-terminal: handleSendMessage,   *)
(* the three backend adapters (handleGoogleGeminiStream,                    *)
(* handleOpenRouterStream, handleMcpStream), the stream decoder            *)
(* (processStream), the tool registry and handleTeamExecution.             *)
(*                                                                         *)
(* Texts are sequences of tokens (a string is the concatenation of its     *)
(* tokens).  Identifiers are pairs <<prefix, n>>: `model-${Date.now()}` is *)
(* <<"model", now>>.  The clock `now` advances by one on every user event  *)
(* and on every network round trip; code that runs without an intervening  *)
(* network await reads the same clock value.                               *)
(***************************************************************************)
EXTENDS Integers, Sequences, FiniteSets, TLC

\* ------------------------------------------------------------------ bounds

\* events in one generic-HTTP response body
MaxEvents == 2
\* chunks delivered by one native response stream
MaxChunks == 2
\* function calls returned by one native response
MaxCalls == 2
\* members of a team
MaxMembers == 3
\* sends are accepted while the clock is below MaxClock
MaxClock == 3

\* ------------------------------------------------------------- sequences

RECURSIVE Flatten(_)
Flatten(ss) == IF ss = <<>> THEN <<>> ELSE Head(ss) \o Flatten(Tail(ss))

SeqsUpTo(S, n) == UNION {[1..k -> S] : k \in 0..n}

\* Array.prototype.join(sep) over a sequence of texts
RECURSIVE Join(_, _)
Join(ss, sep) ==
  IF ss = <<>> THEN <<>>
  ELSE IF Len(ss) = 1 THEN ss[1]
  ELSE ss[1] \o sep \o Join(Tail(ss), sep)

\* ------------------------------------------------------------------ types

NoId == <<"null", 0>>
NoError == <<>>

Msg(id, role, text, isError) ==
  [id |-> id, role |-> role, text |-> text, isError |-> isError]

\* agents[i]: id, name, instructions, tools (src/types.ts Agent)
InitialAgents ==
  << [id |-> <<"agent", 1>>, name |-> "General", instructions |-> <<"be helpful">>,
      tools |-> <<>>, styleGuide |-> <<>>],
     [id |-> <<"agent", 2>>, name |-> "Analyst", instructions |-> <<"analyse">>,
      tools |-> <<"get_financial_data", "create_chart">>,
      styleGuide |-> <<"tono formal">>],
     [id |-> <<"agent", 3>>, name |-> "Scout", instructions |-> <<"search">>,
      tools |-> <<"native_google_search", "get_financial_data">>,
      styleGuide |-> <<"respuestas breves">>] >>

\* what of an agent is sent to a backend as its instructions: `agent.instructions`
instructionsWithStyle(agent) == agent.instructions \o agent.styleGuide
instructionsOf(agent) == agent.instructions

\* an agent id no agent carries (a dangling team member reference)
GhostAgentId == <<"agent", 9>>

MemberIds == {<<"agent", 1>>, <<"agent", 2>>, GhostAgentId}

\* `activeId?.startsWith('team-')`
isTeamId(id) == id[1] = "team"

\* the ids of a list of agents or teams
IdsOfEntities(s) == {s[i].id : i \in DOMAIN s}

\* Array.prototype.find: the first element satisfying the test, or none
FindIdx(s, key, val) ==
  IF \E i \in DOMAIN s : s[i][key] = val
  THEN CHOOSE i \in DOMAIN s : s[i][key] = val /\ \A j \in 1..(i-1) : s[j][key] # val
  ELSE 0

\* ---------------------------------------------------------------- settings

\* Each field says whether the setting is a non-empty string.
SettingsSet ==
  { [apiProvider |-> "google", API_KEY |-> TRUE,
     openRouterKey |-> FALSE, openRouterModel |-> TRUE,
     mcpEndpoint |-> FALSE, mcpApiKey |-> FALSE, mcpModelId |-> FALSE],
    [apiProvider |-> "google", API_KEY |-> FALSE,
     openRouterKey |-> FALSE, openRouterModel |-> TRUE,
     mcpEndpoint |-> FALSE, mcpApiKey |-> FALSE, mcpModelId |-> FALSE],
    [apiProvider |-> "openrouter", API_KEY |-> TRUE,
     openRouterKey |-> TRUE, openRouterModel |-> TRUE,
     mcpEndpoint |-> FALSE, mcpApiKey |-> FALSE, mcpModelId |-> FALSE],
    [apiProvider |-> "openrouter", API_KEY |-> TRUE,
     openRouterKey |-> FALSE, openRouterModel |-> TRUE,
     mcpEndpoint |-> FALSE, mcpApiKey |-> FALSE, mcpModelId |-> FALSE],
    [apiProvider |-> "mcp", API_KEY |-> TRUE,
     openRouterKey |-> FALSE, openRouterModel |-> TRUE,
     mcpEndpoint |-> TRUE, mcpApiKey |-> TRUE, mcpModelId |-> TRUE],
    [apiProvider |-> "mcp", API_KEY |-> TRUE,
     openRouterKey |-> FALSE, openRouterModel |-> TRUE,
     mcpEndpoint |-> TRUE, mcpApiKey |-> TRUE, mcpModelId |-> FALSE] }

\* ------------------------------------------------------------ user input

InputSet == {"hola", "clear", " Clear ", "  "}

\* String.prototype.trim
Trim(str) ==
  CASE str = " Clear " -> "Clear"
    [] str = "  " -> ""
    [] OTHER -> str

\* String.prototype.toLowerCase
ToLowerCaseNone(str) == str
ToLowerCase(str) ==
  CASE str = "Clear" -> "clear"
    [] OTHER -> str

VARIABLES
  agents,         \* Agent[]
  teams,          \* Team[]
  activeId,       \* id of the active agent or team, or NoId
  chatHistories,  \* entity id -> sequence of ChatMessage
  input,          \* text of the input box
  isLoading,      \* a turn is in flight
  error,          \* last error text, NoError when null
  settings,       \* provider and credentials
  now,            \* Date.now()
  pc,             \* where the in-flight turn is suspended
  turn,           \* what handleSendMessage captured in its closure
  http,           \* locals of processStream and the response body it reads
  gem,            \* locals of handleGoogleGeminiStream
  team,           \* locals of handleTeamExecution
  calls,          \* every invocation of updateHistory in this turn, in order
  requests        \* every network request issued in this turn, in order

vars == <<agents, teams, activeId, chatHistories, input, isLoading, error,
          settings, now, pc, turn, http, gem, team, calls, requests>>

appVars == <<agents, teams, activeId, settings>>

\* ------------------------------------------------------------ app state

activeAgentIdx ==
  IF isTeamId(activeId) THEN 0
  ELSE FindIdx(agents, "id", activeId)

activeTeamIdx ==
  IF isTeamId(activeId) THEN FindIdx(teams, "id", activeId)
  ELSE 0

activeEntityExists == activeAgentIdx # 0 \/ activeTeamIdx # 0

\* `prev[activeId] || []`
HistoryOf(hist, ent) == IF ent \in DOMAIN hist THEN hist[ent] ELSE <<>>

SetHistory(hist, ent, h) ==
  [k \in DOMAIN hist \cup {ent} |-> IF k = ent THEN h ELSE hist[k]]

\* updateHistory reading the entity that is active when the update arrives instead
\* of the one its closure captured
updateHistoryLive(hist, ent, newText, isFirstChunk, idToUpdate, role, isError) ==
  LET currentHistory == HistoryOf(hist, activeId)
  IN IF isFirstChunk
     THEN SetHistory(hist, activeId,
                     Append(currentHistory, Msg(idToUpdate, role, newText, isError)))
     ELSE SetHistory(hist, activeId,
            [i \in DOMAIN currentHistory |->
               IF currentHistory[i].id = idToUpdate
               THEN [currentHistory[i] EXCEPT !.text = newText, !.isError = isError]
               ELSE currentHistory[i]])

\* updateHistory: the first chunk appends a message, a later one replaces the text
\* (and the error flag) of every message that carries the id.
updateHistory(hist, ent, newText, isFirstChunk, idToUpdate, role, isError) ==
  LET currentHistory == HistoryOf(hist, ent)
  IN IF isFirstChunk
     THEN SetHistory(hist, ent,
                     Append(currentHistory, Msg(idToUpdate, role, newText, isError)))
     ELSE SetHistory(hist, ent,
            [i \in DOMAIN currentHistory |->
               IF currentHistory[i].id = idToUpdate
               THEN [currentHistory[i] EXCEPT !.text = newText, !.isError = isError]
               ELSE currentHistory[i]])

\* One invocation of updateHistory: its arguments, who made it ("adapter", "catch"
\* or "team") and, for a team run, the position of the member it is about.
StepCall(text, first, id, role, isError, by, step) ==
  [text |-> text, first |-> first, id |-> id, role |-> role,
   isError |-> isError, by |-> by, step |-> step]

Call(text, first, id, role, isError, by) ==
  StepCall(text, first, id, role, isError, by, 0)


\* ---------------------------------------------------------- error texts

ErrGoogleKey == <<"La variable de entorno API_KEY de Google no esta configurada.">>
ErrOpenRouterConfig == <<"La clave de API y el modelo de OpenRouter deben estar configurados.">>
ErrMcpConfig == <<"El endpoint, la clave de API y el ID del modelo de MCP deben estar configurados.">>
ErrUnknown == <<"Ocurrio un error desconocido. Revisa la configuracion.">>
PolicyHint == <<"**Solucion:** Visita tus ajustes de privacidad de OpenRouter">>
ErrNetwork == <<"Failed to fetch">>
ErrJsonSyntax == <<"Unexpected token < in JSON">>
StatusText == <<"Too Many Requests">>

\* the `message` of an exception raised by the transport: a text, or empty
FaultMessages == {ErrNetwork, <<>>}

\* String.prototype.includes('data policy'), on tokens
IncludesDataPolicyNever(message) == FALSE
IncludesDataPolicy(message) == \E i \in DOMAIN message : message[i] = "data policy"

\* bodies of a non-success HTTP response: JSON or not, and error.message when present
ErrorBodies ==
  { [json |-> TRUE, message |-> <<"rate limited">>],
    [json |-> TRUE, message |-> <<"data policy", " violation">>],
    [json |-> TRUE, message |-> <<>>],
    [json |-> FALSE, message |-> <<>>] }

\* --------------------------------------------------- handleSendMessage

\* no agent: `activeAgent` of a turn sent to a team
NoAgent ==
  [id |-> NoId, name |-> "", instructions |-> <<>>, tools |-> <<>>, styleGuide |-> <<>>]

NoTurn ==
  [activeId |-> NoId, chatHistories |-> <<>>, modelMessageId |-> NoId,
   userMessage |-> <<>>, newHistory |-> <<>>, agent |-> 0, activeAgent |-> NoAgent,
   kind |-> "none"]

\* The catch block of handleSendMessage.  `chatHistories` is the value captured
\* when the handler was called, not the current state.
CatchIsFirst(t) ==
  ~ \E i \in DOMAIN t.chatHistories : t.chatHistories[i].id = t.modelMessageId

ErrorMessageOf(eMessage) == IF eMessage = <<>> THEN ErrUnknown ELSE eMessage

Catch(eMessage) ==
  LET errorMessage == ErrorMessageOf(eMessage)
      first == CatchIsFirst(turn)
  IN /\ chatHistories' = updateHistory(chatHistories, turn.activeId, errorMessage,
                                        first, turn.modelMessageId, "model", TRUE)
     /\ calls' = Append(calls, Call(errorMessage, first, turn.modelMessageId,
                                    "model", TRUE, "catch"))
     /\ error' = errorMessage
     /\ isLoading' = FALSE
     /\ pc' = "idle"

\* The same block when the fault is raised before the first await of the handler:
\* the user message and the error message are both applied in the one step.
CatchAtSend(t, hist, eMessage) ==
  LET errorMessage == ErrorMessageOf(eMessage)
      first == CatchIsFirst(t)
  IN /\ chatHistories' = updateHistory(hist, t.activeId, errorMessage,
                                        first, t.modelMessageId, "model", TRUE)
     /\ calls' = <<Call(errorMessage, first, t.modelMessageId, "model", TRUE, "catch")>>
     /\ error' = errorMessage
     /\ isLoading' = FALSE
     /\ pc' = "idle"

\* The `finally` block after an adapter returned without a fault.
FinishLoadingLeft ==
  /\ isLoading' = isLoading
  /\ pc' = "idle"

Finish ==
  /\ isLoading' = FALSE
  /\ pc' = "idle"

\* What the handler does before it selects an adapter.
SendGuard ==
  /\ Trim(input) # ""
  /\ ~isLoading
  /\ activeId # NoId
  /\ activeEntityExists

NewTurn(kind) ==
  LET userMessage == Msg(<<"user", now + 1>>, "user", <<Trim(input)>>, FALSE)
  IN [activeId |-> activeId,
      chatHistories |-> HistoryOf(chatHistories, activeId),
      modelMessageId |-> <<"model", now + 1>>,
      userMessage |-> userMessage,
      newHistory |-> Append(HistoryOf(chatHistories, activeId), userMessage),
      agent |-> activeAgentIdx,
      activeAgent |-> IF activeAgentIdx # 0 THEN agents[activeAgentIdx] ELSE NoAgent,
      kind |-> kind]

\* `setIsLoading(true)` when a turn starts
LoadingAtSendUnset == FALSE
LoadingAtSend == TRUE

\* Date.now() is bounded: a send is modelled while the clock is below MaxClock
ClockLeft == now < MaxClock

\* the footer with the input form is rendered only while nothing is loading, and
\* its textarea is disabled without an active entity
FooterRendered == ~isLoading
TextareaEnabled == ~(isLoading \/ ~activeEntityExists)

\* `onChange={(e) => setInput(e.target.value)}`
TypeInput ==
  /\ FooterRendered
  /\ TextareaEnabled
  /\ \E text \in InputSet \ {input} : input' = text
  /\ UNCHANGED <<appVars, chatHistories, isLoading, error, now, pc, turn, http, gem,
                 team, calls, requests>>

\* `if (!input.trim() || isLoading || !activeId || !activeEntity) return;`
SendIgnored ==
  /\ ~SendGuard
  /\ UNCHANGED vars

\* the local command `clear`
SendClear ==
  /\ SendGuard
  /\ ClockLeft
  /\ ToLowerCase(Trim(input)) = "clear"
  /\ chatHistories' = SetHistory(chatHistories, activeId, <<>>)
  /\ input' = ""
  /\ now' = now + 1
  /\ UNCHANGED <<appVars, isLoading, error, pc, turn, http, gem, team, calls, requests>>

\* ------------------------------------------------------ stream decoder

\* Tokens of a response body: "P" is the prefix `data: `, "N" a newline, "O" and "C"
\* open and close the JSON object of an event, "a" and "b" are its delta.content,
\* "DONE" is the sentinel `[DONE]`.
EventKinds == {"a", "b", "empty", "bad", "done"}

Payload(k) ==
  CASE k = "a" -> <<"O", "a", "C">>
    [] k = "b" -> <<"O", "b", "C">>
    [] k = "empty" -> <<"O", "C">>
    [] k = "bad" -> <<"O", "a">>
    [] k = "done" -> <<"DONE">>

EventBytes(k) == <<"P">> \o Payload(k) \o <<"N", "N">>

WireOf(events) == Flatten([i \in DOMAIN events |-> EventBytes(events[i])])

\* String.prototype.split('\n\n')
RECURSIVE Split(_)
Split(str) ==
  IF \E i \in 1..(Len(str) - 1) : str[i] = "N" /\ str[i+1] = "N"
  THEN LET i == CHOOSE i \in 1..(Len(str) - 1) :
                  /\ str[i] = "N" /\ str[i+1] = "N"
                  /\ \A j \in 1..(i-1) : ~(str[j] = "N" /\ str[j+1] = "N")
       IN <<SubSeq(str, 1, i - 1)>> \o Split(SubSeq(str, i + 2, Len(str)))
  ELSE <<str>>

\* JSON white space around a value is skipped by JSON.parse
RECURSIVE StripWs(_)
StripWs(str) ==
  IF str # <<>> /\ Head(str) = "N" THEN StripWs(Tail(str))
  ELSE IF str # <<>> /\ str[Len(str)] = "N" THEN StripWs(SubSeq(str, 1, Len(str) - 1))
  ELSE str

\* JSON.parse(data) followed by json.choices[0]?.delta?.content || '' :
\* ok is FALSE when either throws, content is <<>> for ''.
ParseContent(data) ==
  LET d == StripWs(data)
  IN IF Len(d) = 3 /\ d[1] = "O" /\ d[3] = "C" /\ d[2] \in {"a", "b"}
     THEN [ok |-> TRUE, content |-> <<d[2]>>]
     ELSE IF d = <<"O", "C">> THEN [ok |-> TRUE, content |-> <<>>]
     ELSE [ok |-> FALSE, content |-> <<>>]

startsWithData(line) == line # <<>> /\ Head(line) = "P"

\* `catch (e) { console.error(...) }` inside the loop: the error is logged and the
\* loop goes on with the lines that follow.
AfterParseErrorAbort(rest) == <<>>
AfterParseError(rest) == rest

\* The body of `for (const line of lines)`: st carries fullResponse, firstChunk, the
\* histories and the callback log through the loop; `break` ends the loop.
RECURSIVE ProcessLines(_, _, _)
ProcessLines(lines, st, t) ==
  IF lines = <<>> THEN st
  ELSE LET line == Head(lines)
       IN IF ~startsWithData(line) THEN ProcessLines(Tail(lines), st, t)
          ELSE LET data == Tail(line)
               IN IF data = <<"DONE">> THEN [st EXCEPT !.sawDone = TRUE]
                  ELSE LET p == ParseContent(data)
                       IN IF p.ok /\ p.content # <<>>
                          THEN LET full == st.fullResponse \o p.content
                               IN ProcessLines(Tail(lines),
                                    [st EXCEPT
                                       !.fullResponse = full,
                                       !.firstChunk = FALSE,
                                       !.hist = updateHistory(st.hist, t.activeId, full,
                                                  st.firstChunk, t.modelMessageId,
                                                  "model", FALSE),
                                       !.calls = Append(st.calls,
                                                  Call(full, st.firstChunk,
                                                       t.modelMessageId, "model",
                                                       FALSE, "adapter"))],
                                    t)
                          ELSE IF p.ok THEN ProcessLines(Tail(lines), st, t)
                          ELSE ProcessLines(AfterParseError(Tail(lines)), st, t)

\* no non-success response was received
NoBody == [json |-> FALSE, message |-> <<"none">>]

NoHttp ==
  [errorBody |-> NoBody, events |-> <<>>, wire |-> <<>>, pos |-> 0, fullResponse |-> <<>>,
   firstChunk |-> TRUE, sawDone |-> FALSE, textAtDone |-> <<>>,
   readAfterDone |-> FALSE]

\* ------------------------------------------- generic-HTTP backends A and B

httpConfiguredAlways == TRUE
httpConfigured ==
  IF settings.apiProvider = "openrouter"
  THEN settings.openRouterKey /\ settings.openRouterModel
  ELSE settings.mcpApiKey /\ settings.mcpModelId /\ settings.mcpEndpoint

httpConfigError ==
  IF settings.apiProvider = "openrouter" THEN ErrOpenRouterConfig ELSE ErrMcpConfig

\* `history.map(msg => ({ role: msg.role === 'user' ? 'user' : 'assistant', ... }))`
httpMessages(history) ==
  [i \in DOMAIN history |->
     [role |-> IF history[i].role = "user" THEN "user" ELSE "assistant",
      content |-> history[i].text]]

\* the payload with the whole new history mapped, in-flight user message included
httpPayloadFullHistory(t, systemInstruction) ==
  <<[role |-> "system", content |-> systemInstruction]>>
  \o httpMessages(t.newHistory)
  \o <<[role |-> "user", content |-> t.userMessage.text]>>

httpPayload(t, systemInstruction) ==
  <<[role |-> "system", content |-> systemInstruction]>>
  \o httpMessages(SubSeq(t.newHistory, 1, Len(t.newHistory) - 1))
  \o <<[role |-> "user", content |-> t.userMessage.text]>>

\* handleSendMessage up to the first await of handleOpenRouterStream / handleMcpStream
SendHttp ==
  /\ SendGuard
  /\ ClockLeft
  /\ ToLowerCase(Trim(input)) # "clear"
  /\ activeAgentIdx # 0
  /\ settings.apiProvider \in {"openrouter", "mcp"}
  /\ LET t == NewTurn(settings.apiProvider)
         hist == SetHistory(chatHistories, activeId, t.newHistory)
     IN /\ turn' = t
        /\ input' = ""
        /\ now' = now + 1
        /\ IF httpConfigured
           THEN /\ chatHistories' = hist
                /\ isLoading' = LoadingAtSend
                /\ error' = NoError
                /\ pc' = "fetch"
                /\ calls' = <<>>
                /\ requests' = <<[to |-> settings.apiProvider, stream |-> TRUE,
                                  messages |-> httpPayload(t, instructionsOf(agents[t.agent]))]>>
           ELSE /\ CatchAtSend(t, hist, httpConfigError)
                /\ requests' = <<>>
  /\ http' = NoHttp
  /\ UNCHANGED <<appVars, gem, team>>

\* `fetch` rejects: no response at all
FetchFault ==
  /\ pc = "fetch"
  /\ \E m \in FaultMessages : Catch(m)
  /\ now' = now + 1
  /\ UNCHANGED <<appVars, input, turn, http, gem, team, requests>>

\* `if (!response.ok) { ... throw new Error(...) }`
HttpErrorText(provider, body) ==
  IF ~body.json THEN ErrJsonSyntax
  ELSE LET message == IF body.message # <<>> THEN body.message ELSE StatusText
       IN IF provider = "openrouter"
          THEN <<"Error de OpenRouter: ">> \o message
               \o (IF IncludesDataPolicy(message) THEN PolicyHint ELSE <<>>)
          ELSE <<"Error de MCP: ">> \o message

FetchNotOk ==
  /\ pc = "fetch"
  /\ \E body \in ErrorBodies :
       /\ Catch(HttpErrorText(turn.kind, body))
       /\ http' = [http EXCEPT !.errorBody = body]
  /\ now' = now + 1
  /\ UNCHANGED <<appVars, input, turn, gem, team, requests>>

\* a success response: the server has chosen the events of the body
FetchOk ==
  /\ pc = "fetch"
  /\ \E events \in SeqsUpTo(EventKinds, MaxEvents) :
       http' = [NoHttp EXCEPT !.events = events, !.wire = WireOf(events)]
  /\ now' = now + 1
  /\ pc' = "reading"
  /\ UNCHANGED <<appVars, chatHistories, input, isLoading, error, turn, gem, team,
                 calls, requests>>

\* one iteration of `while (true)`: reader.read() delivers the next k tokens
ReadChunk ==
  /\ pc = "reading"
  /\ \E k \in 1..(Len(http.wire) - http.pos) :
       LET chunk == SubSeq(http.wire, http.pos + 1, http.pos + k)
           lines == Split(chunk)
           st == ProcessLines(lines,
                   [fullResponse |-> http.fullResponse, firstChunk |-> http.firstChunk,
                    hist |-> chatHistories, calls |-> calls, sawDone |-> FALSE],
                   turn)
       IN /\ http' = [http EXCEPT
                        !.pos = http.pos + k,
                        !.fullResponse = st.fullResponse,
                        !.firstChunk = st.firstChunk,
                        !.sawDone = http.sawDone \/ st.sawDone,
                        !.textAtDone = IF ~http.sawDone /\ st.sawDone
                                       THEN st.fullResponse ELSE http.textAtDone,
                        !.readAfterDone = http.sawDone]
          /\ chatHistories' = st.hist
          /\ calls' = st.calls
  /\ UNCHANGED <<appVars, input, isLoading, error, now, pc, turn, gem, team, requests>>

\* reader.read() answers done: the loop ends and the adapter returns
ReadDone ==
  /\ pc = "reading"
  /\ http.pos = Len(http.wire)
  /\ Finish
  /\ http' = [http EXCEPT !.readAfterDone = http.sawDone]
  /\ UNCHANGED <<appVars, chatHistories, input, error, now, turn, gem, team,
                 calls, requests>>

\* reader.read() rejects: the connection broke
ReadFault ==
  /\ pc = "reading"
  /\ \E m \in FaultMessages : Catch(m)
  /\ UNCHANGED <<appVars, input, now, turn, http, gem, team, requests>>

\* -------------------------------------------------------- tool registry

\* toolRegistry in insertion order: the tool id, its declaration.name and whether
\* it has an `execute`.
toolRegistry ==
  << [id |-> "native_google_search", name |-> "google_search", execute |-> FALSE],
     [id |-> "get_financial_data", name |-> "get_financial_data", execute |-> TRUE],
     [id |-> "get_historical_data", name |-> "get_historical_data", execute |-> TRUE],
     [id |-> "create_chart", name |-> "create_chart", execute |-> TRUE],
     [id |-> "get_current_datetime", name |-> "get_current_datetime", execute |-> TRUE] >>

\* `toolRegistry[toolId]?.declaration`
DeclarationOf(toolId) ==
  LET i == FindIdx(toolRegistry, "id", toolId)
  IN IF i = 0 THEN <<>> ELSE <<toolRegistry[i].name>>

\* `Object.values(toolRegistry).find(t => t.declaration.name === fc.name)`
ToolByName(name) == FindIdx(toolRegistry, "name", name)

\* A function call as the backend returns it.  args is "ok" when the arguments match
\* the declared schema and "none" when the required fields are absent.
FunctionCall(name, args) == [name |-> name, args |-> args]

FunctionCallSet ==
  { FunctionCall("get_financial_data", "ok"),
    FunctionCall("get_financial_data", "none"),
    FunctionCall("create_chart", "ok"),
    FunctionCall("google_search", "ok"),
    FunctionCall("no_such_tool", "ok") }

\* How `tool.execute(fc.args)` behaves when it is called:
\*   "reject"  the call throws before its first await (`ticker.toUpperCase()` of an
\*             absent ticker), so the promise is rejected at once;
\*   "now"     the promise resolves without a network request;
\*   "later"   the executor awaits a fetch and resolves when it answers.
ExecuteMode(toolId, args) ==
  CASE toolId \in {"get_financial_data", "get_historical_data"} ->
         IF args = "none" THEN "reject" ELSE "later"
    [] OTHER -> "now"

\* the values an executor resolves with: its data, or the {error} object it returns
\* when its own request failed
ExecuteValues(toolId) ==
  CASE toolId \in {"get_financial_data", "get_historical_data"} ->
         {"data", "error: no data"}
    [] toolId = "create_chart" -> {"chart"}
    [] OTHER -> {"datetime"}

ErrToolThrew == <<"Cannot read properties of undefined (reading 'toUpperCase')">>

FunctionResponse(name, kind, value) ==
  [functionResponse |-> [name |-> name, response |-> [kind |-> kind, value |-> value]]]

NotFoundResponse(name) ==
  FunctionResponse(name, "error", "Herramienta no encontrada o no ejecutable")

\* The state of one `async (fc) => ...` of the map, right after it was called.
StartExecution(fc) ==
  LET i == ToolByName(fc.name)
  IN IF i # 0 /\ toolRegistry[i].execute
     THEN LET mode == ExecuteMode(toolRegistry[i].id, fc.args)
          IN CASE mode = "reject" -> [status |-> "rejected", tool |-> toolRegistry[i].id,
                                      result |-> <<>>]
               [] mode = "later" -> [status |-> "pending", tool |-> toolRegistry[i].id,
                                     result |-> <<>>]
               [] OTHER -> [status |-> "settled", tool |-> toolRegistry[i].id,
                            result |-> FunctionResponse(fc.name, "result",
                                         CHOOSE v \in ExecuteValues(toolRegistry[i].id) : TRUE)]
     ELSE [status |-> "settled", tool |-> "", result |-> NotFoundResponse(fc.name)]

\* `functionCalls.map(async (fc) => ...)`: every executor is called in the one pass
FanOut(functionCalls) ==
  [i \in DOMAIN functionCalls |-> StartExecution(functionCalls[i])]

\* Promise.all: rejected as soon as one promise is rejected, fulfilled once all are
AnyRejected(exec) == \E i \in DOMAIN exec : exec[i].status = "rejected"
AllSettledRace(exec) == \E i \in DOMAIN exec : exec[i].status = "settled"
AllSettled(exec) == \A i \in DOMAIN exec : exec[i].status = "settled"

\* --------------------------------------------------------- native backend

NoGem ==
  [useGoogleSearch |-> FALSE, customTools |-> <<>>, contents |-> <<>>,
   fullResponse |-> <<>>, firstChunk |-> TRUE, functionCalls |-> <<>>,
   nchunks |-> 0, exec |-> <<>>, finalMessageId |-> NoId,
   finalResponseText |-> <<>>, groundingMetadata |-> <<>>, hasGrounding |-> FALSE]

\* `history.map(msg => ({ role: msg.role, parts: [{ text: msg.text }] }))`
geminiContents(history) ==
  [i \in DOMAIN history |->
     [role |-> history[i].role, parts |-> <<[text |-> history[i].text]>>]]

\* `agent.tools?.filter(...).map(toolId => toolRegistry[toolId]?.declaration).filter(Boolean)`
customToolsOf(agent) ==
  Flatten([i \in DOMAIN agent.tools |->
             IF agent.tools[i] = "native_google_search" THEN <<>>
             ELSE DeclarationOf(agent.tools[i])])

useGoogleSearchNever(agent) == FALSE
useGoogleSearchOf(agent) ==
  \E i \in DOMAIN agent.tools : agent.tools[i] = "native_google_search"

ToolsConfig(customTools) ==
  IF Len(customTools) > 0
  THEN [kind |-> "functionDeclarations", declarations |-> customTools]
  ELSE [kind |-> "undefined", declarations |-> <<>>]

GeminiRequest(contents, systemInstruction, tools) ==
  [to |-> "google", api |-> "generateContentStream", model |-> "gemini-2.5-flash",
   contents |-> contents, systemInstruction |-> systemInstruction, tools |-> tools]

\* handleSendMessage up to the first await of handleGoogleGeminiStream
SendGoogle ==
  /\ SendGuard
  /\ ClockLeft
  /\ ToLowerCase(Trim(input)) # "clear"
  /\ activeAgentIdx # 0
  /\ settings.apiProvider = "google"
  /\ LET t == NewTurn("google")
         hist == SetHistory(chatHistories, activeId, t.newHistory)
         agent == agents[t.agent]
         contents == geminiContents(t.newHistory)
     IN /\ turn' = t
        /\ input' = ""
        /\ now' = now + 1
        /\ IF settings.API_KEY
           THEN /\ chatHistories' = hist
                /\ isLoading' = LoadingAtSend
                /\ error' = NoError
                /\ calls' = <<>>
                /\ gem' = [NoGem EXCEPT !.useGoogleSearch = useGoogleSearchOf(agent),
                                        !.customTools = customToolsOf(agent),
                                        !.contents = contents]
                /\ IF useGoogleSearchOf(agent)
                   THEN /\ pc' = "callS"
                        /\ requests' = <<GeminiRequest(contents, instructionsOf(agent),
                                           [kind |-> "googleSearch", declarations |-> <<>>])>>
                   ELSE /\ pc' = "call1"
                        /\ requests' = <<GeminiRequest(contents, instructionsOf(agent),
                                           ToolsConfig(customToolsOf(agent)))>>
           ELSE /\ CatchAtSend(t, hist, ErrGoogleKey)
                /\ requests' = <<>>
                /\ gem' = NoGem
  /\ http' = NoHttp
  /\ UNCHANGED <<appVars, team>>

\* `await ai.models.generateContentStream(...)` rejects
GoogleCallFault ==
  /\ pc \in {"call1", "call2", "callS"}
  /\ \E m \in FaultMessages : Catch(m)
  /\ now' = now + 1
  /\ UNCHANGED <<appVars, input, turn, http, gem, team, requests>>

\* `const finalMessageId = \`model-${Date.now()}\``, taken when the second call
\* has answered
finalMessageIdReused(t, clock) == t.modelMessageId
finalMessageIdAt(t, clock) == <<"model", clock>>

\* ... or answers with a stream
GoogleCallOk ==
  /\ pc \in {"call1", "call2", "callS"}
  /\ now' = now + 1
  /\ pc' = CASE pc = "call1" -> "stream1" [] pc = "call2" -> "stream2" [] OTHER -> "streamS"
  /\ gem' = IF pc = "call2"
            THEN [gem EXCEPT !.firstChunk = TRUE, !.nchunks = 0,
                             !.finalMessageId = finalMessageIdAt(turn, now + 1)]
            ELSE gem
  /\ UNCHANGED <<appVars, chatHistories, input, isLoading, error, turn, http, team,
                 calls, requests>>

\* `for await` throws: the stream broke
GoogleStreamFault ==
  /\ pc \in {"stream1", "stream2", "streamS"}
  /\ \E m \in FaultMessages : Catch(m)
  /\ UNCHANGED <<appVars, input, now, turn, http, gem, team, requests>>

\* the text parts of a chunk
ChunkTexts == {<<>>, <<"a">>, <<"b">>}

\* chunk.functionCalls: undefined (<<>>) or the calls of the chunk
ChunkCalls == SeqsUpTo(FunctionCallSet, 2)

\* one iteration of the first `for await (const chunk of result)`
GoogleChunk ==
  /\ pc = "stream1"
  /\ gem.nchunks < MaxChunks
  /\ \E text \in ChunkTexts, fcs \in ChunkCalls :
       /\ Len(gem.functionCalls) + Len(fcs) <= MaxCalls
       /\ IF fcs # <<>>
          THEN /\ gem' = [gem EXCEPT !.functionCalls = gem.functionCalls \o fcs,
                                     !.nchunks = gem.nchunks + 1]
               /\ UNCHANGED <<chatHistories, calls>>
          ELSE IF text # <<>>
          THEN LET full == gem.fullResponse \o text
               IN /\ gem' = [gem EXCEPT !.fullResponse = full, !.firstChunk = FALSE,
                                        !.nchunks = gem.nchunks + 1]
                  /\ chatHistories' = updateHistory(chatHistories, turn.activeId, full,
                                        gem.firstChunk, turn.modelMessageId, "model", FALSE)
                  /\ calls' = Append(calls, Call(full, gem.firstChunk,
                                       turn.modelMessageId, "model", FALSE, "adapter"))
          ELSE /\ gem' = [gem EXCEPT !.nchunks = gem.nchunks + 1]
               /\ UNCHANGED <<chatHistories, calls>>
  /\ UNCHANGED <<appVars, input, isLoading, error, now, pc, turn, http, team, requests>>

\* `JSON.stringify(fc.args)` inside the status line
toolUseText(functionCalls) ==
  <<"[Usando herramienta: ">>
  \o Join([i \in DOMAIN functionCalls |->
             <<functionCalls[i].name, "(", functionCalls[i].args, ")">>], <<", ">>)
  \o <<"...]">>

conversationHistoryPerResponse(contents, functionCalls, toolResults) ==
  contents
  \o << [role |-> "model",
         parts |-> [i \in DOMAIN functionCalls |-> [functionCall |-> functionCalls[i]]]] >>
  \o [i \in DOMAIN toolResults |-> [role |-> "function", parts |-> <<toolResults[i]>>]]

\* conversationHistoryForNextTurn
conversationHistoryForNextTurn(contents, functionCalls, toolResults) ==
  contents
  \o << [role |-> "model",
         parts |-> [i \in DOMAIN functionCalls |-> [functionCall |-> functionCalls[i]]]],
        [role |-> "function", parts |-> toolResults] >>

\* the responses collected as the executions complete: those that await no fetch
\* come before those that do
toolResultsByCompletion(exec) ==
  LET awaits(e) == e.tool \in {"get_financial_data", "get_historical_data"}
      done == SelectSeq(exec, LAMBDA e : ~awaits(e)) \o SelectSeq(exec, awaits)
  IN [i \in DOMAIN done |-> done[i].result]

\* the array `await Promise.all(...)` yields: the i-th value is that of the i-th promise
toolResultsOf(exec) == [i \in DOMAIN exec |-> exec[i].result]

\* What follows `await Promise.all(...)` once its outcome is known: the fault is
\* handed to the catch block, or the second request is issued.
AfterPromiseAll(exec, g) ==
  IF AnyRejected(exec)
  THEN /\ Catch(ErrToolThrew)
       /\ gem' = [g EXCEPT !.exec = exec]
       /\ UNCHANGED requests
  ELSE IF AllSettled(exec)
  THEN /\ pc' = "call2"
       /\ gem' = [g EXCEPT !.exec = exec]
       /\ requests' = Append(requests,
            GeminiRequest(conversationHistoryForNextTurn(g.contents, g.functionCalls,
                            toolResultsOf(exec)),
                          instructionsOf(turn.activeAgent), ToolsConfig(g.customTools)))
       /\ UNCHANGED <<chatHistories, isLoading, error, calls>>
  ELSE /\ pc' = "tools"
       /\ gem' = [g EXCEPT !.exec = exec]
       /\ UNCHANGED <<chatHistories, isLoading, error, calls, requests>>

\* the first stream ends
GoogleStreamEnd ==
  /\ pc = "stream1"
  /\ IF Len(gem.functionCalls) > 0
     THEN AfterPromiseAll(FanOut(gem.functionCalls), gem)
     ELSE /\ Finish
          /\ UNCHANGED <<chatHistories, error, gem, calls, requests>>
  /\ UNCHANGED <<appVars, input, now, turn, http, team>>

\* the fetch of one pending executor answers; executors of a turn that already
\* ended keep running and settle without effect
ToolSettle ==
  /\ \E i \in DOMAIN gem.exec :
       /\ gem.exec[i].status = "pending"
       /\ \E v \in ExecuteValues(gem.exec[i].tool) :
            LET exec == [gem.exec EXCEPT ![i] =
                           [status |-> "settled", tool |-> gem.exec[i].tool,
                            result |-> FunctionResponse(gem.functionCalls[i].name,
                                                        "result", v)]]
            IN IF pc = "tools"
               THEN AfterPromiseAll(exec, gem)
               ELSE /\ gem' = [gem EXCEPT !.exec = exec]
                    /\ UNCHANGED <<chatHistories, isLoading, error, pc, calls, requests>>
  /\ UNCHANGED <<appVars, input, now, turn, http, team>>

\* one iteration of `for await (const chunk of secondResult)`
GoogleChunk2 ==
  /\ pc = "stream2"
  /\ gem.nchunks < MaxChunks
  /\ \E text \in ChunkTexts :
       IF text # <<>>
       THEN LET finalResponseText == gem.finalResponseText \o text
                combinedText == toolUseText(gem.functionCalls) \o <<"\n\n">>
                                \o finalResponseText
            IN /\ gem' = [gem EXCEPT !.finalResponseText = finalResponseText,
                                     !.firstChunk = FALSE,
                                     !.nchunks = gem.nchunks + 1]
               /\ chatHistories' = updateHistory(chatHistories, turn.activeId,
                                     combinedText, gem.firstChunk, gem.finalMessageId,
                                     "model", FALSE)
               /\ calls' = Append(calls, Call(combinedText, gem.firstChunk,
                                    gem.finalMessageId, "model", FALSE, "adapter"))
       ELSE /\ gem' = [gem EXCEPT !.nchunks = gem.nchunks + 1]
            /\ UNCHANGED <<chatHistories, calls>>
  /\ UNCHANGED <<appVars, input, isLoading, error, now, pc, turn, http, team, requests>>

\* the second stream ends and the adapter returns
GoogleStreamEnd2 ==
  /\ pc = "stream2"
  /\ Finish
  /\ UNCHANGED <<appVars, chatHistories, input, error, now, turn, http, gem, team,
                 calls, requests>>

\* ------------------------------------------------- native search grounding

GroundingChunk(uri, title) == [uri |-> uri, title |-> title]

\* chunk.candidates?.[0]?.groundingMetadata?.groundingChunks when it is present
GroundingLists ==
  { <<>>,
    <<GroundingChunk("u1", "t1")>>,
    <<GroundingChunk("u1", "t1"), GroundingChunk("u1", "t1")>>,
    <<GroundingChunk("", "t2")>>,
    <<GroundingChunk("u2", ""), GroundingChunk("", "t2")>> }

\* `chunk.web?.uri && "* [title || uri](uri)"`, then `.filter(Boolean)`
sourcesOf(groundingMetadata) ==
  Flatten([i \in DOMAIN groundingMetadata |->
     IF groundingMetadata[i].uri = "" THEN <<>>
     ELSE << <<"* [",
               IF groundingMetadata[i].title # "" THEN groundingMetadata[i].title
               ELSE groundingMetadata[i].uri,
               "](", groundingMetadata[i].uri, ")">> >>])

\* one iteration of the search path's `for await`
SearchChunk ==
  /\ pc = "streamS"
  /\ gem.nchunks < MaxChunks
  /\ \E text \in ChunkTexts, hasG \in BOOLEAN, g \in GroundingLists :
       /\ (~hasG => g = <<>>)
       /\ LET full == gem.fullResponse \o text
          IN /\ gem' = [gem EXCEPT
                          !.fullResponse = full,
                          !.firstChunk = IF text # <<>> THEN FALSE ELSE gem.firstChunk,
                          !.groundingMetadata = IF hasG THEN g ELSE gem.groundingMetadata,
                          !.hasGrounding = hasG \/ gem.hasGrounding,
                          !.nchunks = gem.nchunks + 1]
             /\ IF text # <<>>
                THEN /\ chatHistories' = updateHistory(chatHistories, turn.activeId, full,
                                           gem.firstChunk, turn.modelMessageId,
                                           "model", FALSE)
                     /\ calls' = Append(calls, Call(full, gem.firstChunk,
                                          turn.modelMessageId, "model", FALSE, "adapter"))
                ELSE UNCHANGED <<chatHistories, calls>>
  /\ UNCHANGED <<appVars, input, isLoading, error, now, pc, turn, http, team, requests>>

\* the search stream ends: the source list is appended with one replacement update
SearchStreamEnd ==
  /\ pc = "streamS"
  /\ LET sources == sourcesOf(gem.groundingMetadata)
         full == gem.fullResponse \o <<"\n\n---\n**Fuentes:**\n">> \o Join(sources, <<"\n">>)
     IN IF gem.hasGrounding /\ Len(gem.groundingMetadata) > 0 /\ Len(sources) > 0
        THEN /\ gem' = [gem EXCEPT !.fullResponse = full]
             /\ chatHistories' = updateHistory(chatHistories, turn.activeId, full, FALSE,
                                   turn.modelMessageId, "model", FALSE)
             /\ calls' = Append(calls, Call(full, FALSE, turn.modelMessageId, "model",
                                  FALSE, "adapter"))
        ELSE UNCHANGED <<gem, chatHistories, calls>>
  /\ Finish
  /\ UNCHANGED <<appVars, input, error, now, turn, http, team, requests>>

\* ------------------------------------------------------ team orchestrator

NoTeam ==
  [name |-> "", objective |-> <<>>, members |-> <<>>, allAgents |-> <<>>,
   activeId |-> NoId, initialPrompt |-> <<>>, idx |-> 0, intermediateResults |-> <<>>]

\* texts a member's generateContent call may return (response.text)
ResultTexts == {<<"r1">>, <<>>, <<"r2", "---", "r3">>}

WhiteSpace == {" ", "\n", "\n\n"}

\* String.prototype.trim, on tokens
RECURSIVE TrimText(_)
TrimText(text) ==
  IF text # <<>> /\ Head(text) \in WhiteSpace THEN TrimText(Tail(text))
  ELSE IF text # <<>> /\ text[Len(text)] \in WhiteSpace
       THEN TrimText(SubSeq(text, 1, Len(text) - 1))
  ELSE text

\* `intermediateResults.split('---').pop()`: the text after the last '---'
AfterLastSeparator(text) ==
  LET separators == {i \in DOMAIN text : text[i] = "---"}
      last == IF separators = {} THEN 0
              ELSE CHOOSE i \in separators : \A j \in separators : j <= i
  IN SubSeq(text, last + 1, Len(text))

NoResultText == <<"No se pudo generar un resultado final.">>

\* addSystemMessage inside a team run: st carries the histories, the callback log
\* and the request log through the loop.
addSystemMessage(st, tm, text, clock, step) ==
  [st EXCEPT
     !.hist = updateHistory(st.hist, tm.activeId, text, TRUE, <<"system", clock>>,
                            "system", FALSE),
     !.calls = Append(st.calls,
                      StepCall(text, TRUE, <<"system", clock>>, "system", FALSE,
                               "team", step))]

promptFirstStepAlways(agent, tm, intermediateResults) ==
  <<"Eres el agente '", agent.name, "'. El objetivo general del equipo es: ">>
  \o tm.objective
  \o <<" La tarea original del usuario fue: ">> \o tm.initialPrompt
  \o <<" El resultado de los pasos anteriores es: ">>
  \o <<"(Este es el primer paso)">>
  \o <<" Tu tarea actual es: ">> \o agent.instructions

promptForAgent(agent, tm, intermediateResults) ==
  <<"Eres el agente '", agent.name, "'. El objetivo general del equipo es: ">>
  \o tm.objective
  \o <<" La tarea original del usuario fue: ">> \o tm.initialPrompt
  \o <<" El resultado de los pasos anteriores es: ">>
  \o (IF intermediateResults # <<>> THEN intermediateResults
      ELSE <<"(Este es el primer paso)">>)
  \o <<" Tu tarea actual es: ">> \o instructionsOf(agent)

\* `intermediateResults.split('---').pop()?.trim() || "No se pudo generar ..."`
finalOutputNoFallback(intermediateResults) ==
  TrimText(AfterLastSeparator(intermediateResults))

finalOutputOf(intermediateResults) ==
  LET last == TrimText(AfterLastSeparator(intermediateResults))
  IN IF last # <<>> THEN last ELSE NoResultText

\* the end of a run with the completion message left out
TeamFinalizeSilent(st, tm, clock) ==
  LET finalOutput == CHOOSE out \in {finalOutputOf(r) : r \in {st.intermediateResults}} :
                       TRUE
  IN [st EXCEPT
        !.hist = updateHistory(st.hist, tm.activeId, finalOutput, TRUE,
                               <<"model", clock>>, "model", FALSE),
        !.calls = Append(st.calls,
                         StepCall(finalOutput, TRUE, <<"model", clock>>, "model", FALSE,
                                  "team", 0)),
        !.idx = 0,
        !.pc = "idle"]

\* what follows the loop: the completion message and the final model message (the
\* accumulated results are bound by value, so that they are evaluated once)
TeamFinalize(st, tm, clock) ==
  LET st1 == addSystemMessage(st, tm, <<"[Ejecucion del equipo finalizada]">>, clock, 0)
      finalOutput == CHOOSE out \in {finalOutputOf(r) : r \in {st.intermediateResults}} :
                       TRUE
  IN [st1 EXCEPT
        !.hist = updateHistory(st1.hist, tm.activeId, finalOutput, TRUE,
                               <<"model", clock>>, "model", FALSE),
        !.calls = Append(st1.calls,
                         StepCall(finalOutput, TRUE, <<"model", clock>>, "model", FALSE,
                                  "team", 0)),
        !.idx = 0,
        !.pc = "idle"]

\* the catch block of one step
TeamStepFailed(st, tm, agent, eMessage, clock, step) ==
  LET st1 == addSystemMessage(st, tm,
               <<"[Error ejecutando '", agent.name, "']: ">> \o eMessage, clock, step)
  IN [st1 EXCEPT !.intermediateResults =
        st1.intermediateResults
        \o <<"\n\n", "---", " Error de ", agent.name, " ", "---", "\n">> \o eMessage]

\* `break` in the catch block of a step: the loop is left, no later member is visited
AfterStepFailedContinue(i, n) == i + 1
AfterStepFailed(i, n) == n + 1

\* `await ai.models.generateContent(...)`: the loop is suspended while the call of
\* the member is outstanding; what follows runs when the call has answered.
AwaitGenerationNone(suspended, goesOn) == goesOn
AwaitGeneration(suspended, goesOn) == suspended

\* `continue` after an unresolved member: the loop goes on with the next member
\* (n is the number of members).
AfterUnresolvedBreak(i, n) == n + 1
AfterUnresolved(i, n) == i + 1

\* `for (const member of team.members)` from member i on, up to the next await
\* (pc = "teamCall") or to the end of the run (pc = "idle").
RECURSIVE TeamLoop(_, _, _, _, _)
TeamLoop(i, st, tm, clock, apiKey) ==
  IF i > Len(tm.members) THEN TeamFinalize(st, tm, clock)
  ELSE LET a == FindIdx(tm.allAgents, "id", tm.members[i])
       IN IF a = 0
          THEN TeamLoop(AfterUnresolved(i, Len(tm.members)),
                 addSystemMessage(st, tm,
                   <<"[Error] Agente con ID ", ToString(tm.members[i]),
                     " no encontrado. Abortando.">>, clock, i),
                 tm, clock, apiKey)
          ELSE LET agent == tm.allAgents[a]
                   st1 == addSystemMessage(st, tm,
                            <<"[Asignando tarea a '", agent.name, "']">>, clock, i)
               IN IF ~apiKey
                  THEN TeamLoop(AfterStepFailed(i, Len(tm.members)),
                                TeamStepFailed(st1, tm, agent, ErrGoogleKey, clock, i),
                                tm, clock, apiKey)
                  ELSE LET st2 == [st1 EXCEPT !.requests = Append(st1.requests,
                             [to |-> "google", api |-> "generateContent",
                              model |-> "gemini-2.5-flash", step |-> i,
                              contents |-> <<[role |-> "user",
                                 parts |-> <<[text |-> promptForAgent(agent, tm,
                                                st1.intermediateResults)]>>]>>])]
                       IN AwaitGeneration([st2 EXCEPT !.idx = i, !.pc = "teamCall"],
                                          TeamLoop(i + 1, st2, tm, clock, apiKey))

\* the state the loop leaves behind
TeamApply(st, tm, loading) ==
  \E s \in {st} :
    /\ chatHistories' = s.hist
    /\ calls' = s.calls
    /\ requests' = s.requests
    /\ pc' = s.pc
    /\ isLoading' = (s.pc # "idle" /\ loading)
    /\ team' = [tm EXCEPT !.idx = s.idx, !.intermediateResults = s.intermediateResults]

\* handleSendMessage for a team, up to the first await of handleTeamExecution
SendTeam ==
  /\ SendGuard
  /\ ClockLeft
  /\ ToLowerCase(Trim(input)) # "clear"
  /\ activeTeamIdx # 0
  /\ LET t == NewTurn("team")
         hist == SetHistory(chatHistories, activeId, t.newHistory)
         tm == [name |-> teams[activeTeamIdx].name,
                objective |-> teams[activeTeamIdx].objective,
                members |-> teams[activeTeamIdx].members,
                allAgents |-> agents,
                activeId |-> activeId,
                initialPrompt |-> t.userMessage.text,
                idx |-> 0, intermediateResults |-> <<>>]
         st0 == [hist |-> hist, calls |-> <<>>, requests |-> <<>>,
                 intermediateResults |-> <<>>, idx |-> 0, pc |-> "team"]
         st1 == addSystemMessage(st0, tm,
                  <<"[Equipo '", tm.name, "' en marcha... Objetivo: ">> \o tm.objective,
                  now + 1, 0)
     IN /\ turn' = t
        /\ TeamApply(TeamLoop(1, st1, tm, now + 1, settings.API_KEY), tm, LoadingAtSend)
  /\ input' = ""
  /\ now' = now + 1
  /\ error' = NoError
  /\ http' = NoHttp
  /\ gem' = NoGem
  /\ UNCHANGED appVars

TeamState ==
  [hist |-> chatHistories, calls |-> calls, requests |-> requests,
   intermediateResults |-> team.intermediateResults, idx |-> team.idx, pc |-> pc]

\* the `team` and `allAgents` parameters of handleTeamExecution: the values handed
\* over at the call, whatever the application state has become since
capturedTeamLive(tm, liveTeams, liveAgents) ==
  LET t == FindIdx(liveTeams, "id", tm.activeId)
  IN [tm EXCEPT !.members = IF t # 0 THEN liveTeams[t].members ELSE @,
                !.allAgents = liveAgents]

capturedTeam(tm, liveTeams, liveAgents) == tm

\* `await ai.models.generateContent(...)` answers for member team.idx
TeamCallOk ==
  /\ pc = "teamCall"
  /\ \E text \in ResultTexts :
       LET agent == team.allAgents[FindIdx(team.allAgents, "id", team.members[team.idx])]
           resultText == TrimText(text)
           st1 == [TeamState EXCEPT !.intermediateResults =
                     team.intermediateResults
                     \o <<"\n\n", "---", " Resultado de ", agent.name, " ", "---", "\n">>
                     \o resultText]
           st2 == addSystemMessage(st1, team,
                    <<"[Tarea de '", agent.name, "' completada]">>, now + 1, team.idx)
       IN TeamApply(TeamLoop(team.idx + 1, st2, capturedTeam(team, teams, agents),
                             now + 1, settings.API_KEY),
                    capturedTeam(team, teams, agents), isLoading)
  /\ now' = now + 1
  /\ UNCHANGED <<appVars, input, error, turn, http, gem>>

\* ... or rejects: the step fails and the loop is left (`break`)
TeamCallFault ==
  /\ pc = "teamCall"
  /\ \E m \in FaultMessages :
       LET agent == team.allAgents[FindIdx(team.allAgents, "id", team.members[team.idx])]
       IN TeamApply(TeamLoop(AfterStepFailed(team.idx, Len(team.members)),
                             TeamStepFailed(TeamState, team, agent, m, now + 1, team.idx),
                             capturedTeam(team, teams, agents), now + 1,
                             settings.API_KEY),
                    capturedTeam(team, teams, agents), isLoading)
  /\ now' = now + 1
  /\ UNCHANGED <<appVars, input, error, turn, http, gem>>

\* ------------------------------------------------------------------ spec

\* histories an idle entity may already hold: none, or one earlier exchange
PriorHistories ==
  { <<>>,
    << Msg(<<"user", 0>>, "user", <<"antes">>, FALSE),
       Msg(<<"model", 0>>, "model", <<"respuesta">>, FALSE) >> }

\* the history of an entity that is not the active one
OtherHistory == << Msg(<<"user", 0>>, "user", <<"otro">>, FALSE) >>

TeamWith(members) ==
  << [id |-> <<"team", 1>>, name |-> "Desk", objective |-> <<"report">>,
      members |-> members] >>

EntityIds == {InitialAgents[i].id : i \in DOMAIN InitialAgents} \cup {<<"team", 1>>}

\* The application is idle, an agent or the team is active, the user has typed.
\* With an agent active the team has its two first agents as members and every
\* provider setting is tried; with the team active every member list is tried and
\* the provider (which a team run never reads) is the native one.
Init ==
  /\ agents = InitialAgents
  /\ activeId \in EntityIds
  /\ IF isTeamId(activeId)
     THEN /\ \E members \in SeqsUpTo(MemberIds, MaxMembers) : teams = TeamWith(members)
          /\ settings \in {c \in SettingsSet : c.apiProvider = "google"}
     ELSE /\ teams = TeamWith(<< <<"agent", 1>>, <<"agent", 2>> >>)
          /\ settings \in SettingsSet
  /\ \E h \in PriorHistories :
       chatHistories = [k \in EntityIds |-> IF k = activeId THEN h ELSE OtherHistory]
  /\ input \in InputSet
  /\ isLoading = FALSE
  /\ error = NoError
  /\ now = 1
  /\ pc = "idle"
  /\ turn = NoTurn
  /\ http = NoHttp
  /\ gem = NoGem
  /\ team = NoTeam
  /\ calls = <<>>
  /\ requests = <<>>

Next ==
  \/ SendIgnored
  \/ SendClear
  \/ SendHttp
  \/ FetchFault
  \/ FetchNotOk
  \/ FetchOk
  \/ ReadChunk
  \/ ReadDone
  \/ ReadFault
  \/ SendGoogle
  \/ GoogleCallFault
  \/ GoogleCallOk
  \/ GoogleStreamFault
  \/ GoogleChunk
  \/ GoogleStreamEnd
  \/ ToolSettle
  \/ GoogleChunk2
  \/ GoogleStreamEnd2
  \/ SearchChunk
  \/ SearchStreamEnd
  \/ SendTeam
  \/ TeamCallOk
  \/ TeamCallFault

Spec == Init /\ [][Next]_vars

\* the same application with a user who goes on typing after the first send
NextTurns == Next \/ TypeInput

SpecTurns == Init /\ [][NextTurns]_vars


\* what the backends and the runtime do once a turn is in flight: every awaited
\* call returns or fails, every opened stream delivers, closes or fails, every tool
\* execution settles
TurnSteps ==
  \/ FetchFault \/ FetchNotOk \/ FetchOk \/ ReadChunk \/ ReadDone \/ ReadFault
  \/ GoogleCallFault \/ GoogleCallOk \/ GoogleStreamFault \/ GoogleChunk
  \/ GoogleStreamEnd \/ ToolSettle \/ GoogleChunk2 \/ GoogleStreamEnd2
  \/ SearchChunk \/ SearchStreamEnd \/ TeamCallOk \/ TeamCallFault

\* the application with backends that always answer in the end
SpecLive == Init /\ [][Next]_vars /\ WF_vars(TurnSteps)

\* --------------------------------------------------------------- sidebar

\* `team.members.filter(m => m.agentId !== agentId)` with every occurrence left in
\* place replaced by one that drops only the first entry it meets
membersFilterFirst(members, agentId) ==
  LET i == IF \E k \in DOMAIN members : members[k] = agentId
           THEN CHOOSE k \in DOMAIN members :
                  members[k] = agentId /\ \A j \in 1..(k-1) : members[j] # agentId
           ELSE 0
  IN IF i = 0 THEN members
     ELSE SubSeq(members, 1, i - 1) \o SubSeq(members, i + 1, Len(members))

\* `team.members.filter(m => m.agentId !== agentId)`
membersFilter(members, agentId) == SelectSeq(members, LAMBDA m : m # agentId)

\* `delete newHistories[id]`
deleteHistory(hist, id) == [k \in DOMAIN hist \ {id} |-> hist[k]]

\* the selection after the active agent was deleted, taken from the list the
\* handler was rendered with, where the deleted agent still is
newActiveIdStale(renderedAgents, prevAgents, renderedTeams) ==
  IF Len(renderedAgents) > 0 THEN renderedAgents[1].id
  ELSE IF Len(renderedTeams) > 0 THEN renderedTeams[1].id ELSE NoId

\* `prevAgents.length > 0 ? prevAgents[0].id : (teams.length > 0 ? teams[0].id : null)`
\* inside the state updater, which receives the list already filtered
newActiveId(renderedAgents, prevAgents, renderedTeams) ==
  IF Len(prevAgents) > 0 THEN prevAgents[1].id
  ELSE IF Len(renderedTeams) > 0 THEN renderedTeams[1].id ELSE NoId

\* the trash icon of an agent is rendered only while there is more than one agent
DeleteAgentRendered == Len(agents) > 1

\* handleDeleteAgent, the dialog confirmed: the agent leaves the list, every team's
\* members are filtered, the agent's history is deleted, and an active agent hands
\* the selection to the first remaining agent
handleDeleteAgent ==
  /\ DeleteAgentRendered
  /\ \E a \in DOMAIN agents :
       LET agentId == agents[a].id
           prevAgents == SelectSeq(agents, LAMBDA x : x.id # agentId)
       IN /\ agents' = prevAgents
          /\ teams' = [t \in DOMAIN teams |->
                        [teams[t] EXCEPT !.members = membersFilter(@, agentId)]]
          /\ chatHistories' = deleteHistory(chatHistories, agentId)
          /\ activeId' = IF activeId = agentId
                         THEN newActiveId(agents, prevAgents, teams)
                         ELSE activeId
  /\ UNCHANGED <<input, isLoading, error, settings, now, pc, turn, http, gem, team,
                 calls, requests>>

\* handleDeleteTeam, the dialog confirmed
handleDeleteTeam ==
  /\ \E t \in DOMAIN teams :
       LET teamId == teams[t].id
           rest == SelectSeq(teams, LAMBDA x : x.id # teamId)
       IN /\ teams' = rest
          /\ chatHistories' = deleteHistory(chatHistories, teamId)
          /\ activeId' = IF activeId = teamId
                         THEN IF Len(agents) > 0 THEN agents[1].id
                              ELSE IF Len(rest) > 0 THEN rest[1].id ELSE NoId
                         ELSE activeId
  /\ UNCHANGED <<agents, input, isLoading, error, settings, now, pc, turn, http, gem,
                 team, calls, requests>>

\* a click on a sidebar item: `setActiveId(agent.id)`, `setActiveId(team.id)`
SelectEntity ==
  /\ \E id \in {agents[i].id : i \in DOMAIN agents} \cup {teams[i].id : i \in DOMAIN teams} :
       /\ id # activeId
       /\ activeId' = id
  /\ UNCHANGED <<agents, teams, chatHistories, input, isLoading, error, settings, now,
                 pc, turn, http, gem, team, calls, requests>>

\* ids the sidebar creates, `agent-${Date.now()}` and `team-${Date.now()}`: the
\* entities loaded at start carry earlier timestamps, which the offset keeps apart.
\* Every save of a modal is a user event that takes its time on the clock, and it is
\* modelled while the clock is below MaxClock.
CreatedId(prefix, clock) == <<prefix, 10 + clock>>

\* the form of the agent modal as it is submitted (name and instructions given)
NewAgentData ==
  [name |-> "Nuevo", instructions |-> <<"new task">>, tools |-> <<>>, styleGuide |-> <<>>]

EditedInstructions == <<"edited">>

\* handleSaveAgent with no agent being edited: the agent is appended under a new
\* id, gets an empty history and becomes the active entity
handleSaveAgentCreate ==
  /\ ClockLeft
  /\ LET newId == CreatedId("agent", now + 1)
     IN /\ agents' = Append(agents, NewAgentData @@ [id |-> newId])
        /\ chatHistories' = SetHistory(chatHistories, newId, <<>>)
        /\ activeId' = newId
  /\ now' = now + 1
  /\ UNCHANGED <<teams, input, isLoading, error, settings, pc, turn, http, gem, team,
                 calls, requests>>

\* handleSaveAgent for the agent being edited: its fields are replaced by the form's
handleSaveAgentEdit ==
  /\ ClockLeft
  /\ \E a \in DOMAIN agents :
       /\ agents[a].instructions # EditedInstructions
       /\ agents' = [agents EXCEPT ![a].instructions = EditedInstructions]
  /\ now' = now + 1
  /\ UNCHANGED <<teams, activeId, chatHistories, input, isLoading, error, settings,
                 pc, turn, http, gem, team, calls, requests>>

\* what the team modal makes of a member list with one of its buttons:
\* handleAddMember (an agent that is not yet a member), handleRemoveMember,
\* handleMoveMember
FormMembers(members) ==
  {Append(members, agents[a].id) :
     a \in {x \in DOMAIN agents : \A k \in DOMAIN members : members[k] # agents[x].id}}
  \cup {SubSeq(members, 1, i - 1) \o SubSeq(members, i + 1, Len(members)) :
          i \in DOMAIN members}
  \cup {[members EXCEPT ![i] = members[i + 1], ![i + 1] = members[i]] :
          i \in 1..(Len(members) - 1)}

\* handleSubmit of the team modal: `formData.members.length === 0` is refused
TeamFormAccepted(members) == Len(members) > 0 /\ Len(members) <= MaxMembers

\* handleSaveTeam with no team being edited
handleSaveTeamCreate ==
  /\ ClockLeft
  /\ LET newId == CreatedId("team", now + 1)
     IN /\ \E members \in FormMembers(<<>>) :
             /\ TeamFormAccepted(members)
             /\ teams' = Append(teams, [id |-> newId, name |-> "Nuevo equipo",
                                        objective |-> <<"plan">>, members |-> members])
        /\ chatHistories' = SetHistory(chatHistories, newId, <<>>)
        /\ activeId' = newId
  /\ now' = now + 1
  /\ UNCHANGED <<agents, input, isLoading, error, settings, pc, turn, http, gem, team,
                 calls, requests>>

\* handleSaveTeam for the team being edited: its members are replaced by the form's
handleSaveTeamEdit ==
  /\ ClockLeft
  /\ \E t \in DOMAIN teams :
       \E members \in FormMembers(teams[t].members) :
         /\ TeamFormAccepted(members)
         /\ teams' = [teams EXCEPT ![t].members = members]
  /\ now' = now + 1
  /\ UNCHANGED <<agents, activeId, chatHistories, input, isLoading, error, settings,
                 pc, turn, http, gem, team, calls, requests>>

AgentIds == {InitialAgents[i].id : i \in DOMAIN InitialAgents}

\* the initial load with saved agents: the saved active id is kept when it names a
\* loaded agent or team, and the first loaded agent is selected otherwise
loadActiveId(savedActiveId, loadedAgents, loadedTeams) ==
  IF savedActiveId # NoId
     /\ savedActiveId \in IdsOfEntities(loadedAgents) \cup IdsOfEntities(loadedTeams)
  THEN savedActiveId
  ELSE loadedAgents[1].id

\* what localStorage may hold under `activeId`: nothing, the id of a saved entity,
\* or an id no saved entity carries
SavedActiveIds == AgentIds \cup {<<"team", 1>>, <<"team", 2>>, GhostAgentId, NoId}

\* The application is idle with the three agents and two teams: the first team has
\* any member list over the agents, the second has the second agent alone.
InitEntities ==
  /\ agents = InitialAgents
  /\ \E members \in SeqsUpTo(AgentIds, MaxMembers) :
       teams = << [id |-> <<"team", 1>>, name |-> "Desk", objective |-> <<"report">>,
                   members |-> members],
                  [id |-> <<"team", 2>>, name |-> "Solo", objective |-> <<"brief">>,
                   members |-> << <<"agent", 2>> >>] >>
  /\ \E savedActiveId \in SavedActiveIds :
       activeId = loadActiveId(savedActiveId, agents, teams)
  /\ chatHistories = [k \in AgentIds \cup {<<"team", 1>>, <<"team", 2>>} |-> OtherHistory]
  /\ input = "hola"
  /\ isLoading = FALSE
  /\ error = NoError
  /\ settings \in {c \in SettingsSet : c.apiProvider = "google" /\ c.API_KEY}
  /\ now = 1
  /\ pc = "idle"
  /\ turn = NoTurn
  /\ http = NoHttp
  /\ gem = NoGem
  /\ team = NoTeam
  /\ calls = <<>>
  /\ requests = <<>>

NextEntities ==
  \/ handleDeleteAgent
  \/ handleDeleteTeam
  \/ SelectEntity
  \/ handleSaveAgentCreate
  \/ handleSaveAgentEdit
  \/ handleSaveTeamCreate
  \/ handleSaveTeamEdit

SpecEntities == InitEntities /\ [][NextEntities]_vars


\* The application with a user who goes on using the sidebar while a team run is
\* in flight: the team has two or three members (one of them possibly dangling) and
\* the native backend is configured.
InitManage ==
  /\ agents = InitialAgents
  /\ activeId \in EntityIds
  /\ \E members \in {<< <<"agent", 1>>, <<"agent", 2>> >>,
                      << <<"agent", 2>>, GhostAgentId, <<"agent", 1>> >>} :
       teams = TeamWith(members)
  /\ settings \in {c \in SettingsSet : c.apiProvider = "google" /\ c.API_KEY}
  /\ chatHistories = [k \in EntityIds |-> IF k = activeId THEN <<>> ELSE OtherHistory]
  /\ input = "hola"
  /\ isLoading = FALSE
  /\ error = NoError
  /\ now = 1
  /\ pc = "idle"
  /\ turn = NoTurn
  /\ http = NoHttp
  /\ gem = NoGem
  /\ team = NoTeam
  /\ calls = <<>>
  /\ requests = <<>>

NextManage ==
  \/ SendTeam
  \/ TeamCallOk
  \/ TeamCallFault
  \/ handleDeleteAgent
  \/ handleDeleteTeam
  \/ SelectEntity
  \/ handleSaveAgentEdit
  \/ handleSaveTeamEdit

SpecManage == InitManage /\ [][NextManage]_vars

\* the application with a user who selects other sidebar entries at any time, also
\* while a turn is in flight
NextSwitch ==
  SendIgnored \/ SendHttp \/ SendGoogle \/ SendTeam \/ TurnSteps \/ SelectEntity

InitSwitch ==
  /\ Init
  /\ input = "hola"
  /\ teams = TeamWith(<< <<"agent", 1>>, <<"agent", 2>> >>)

SpecSwitch == InitSwitch /\ [][NextSwitch]_vars

\* ------------------------------------------------------------------ claims

SingleAgentTurn == turn.kind \in {"google", "openrouter", "mcp"}
HttpTurn == turn.kind \in {"openrouter", "mcp"}

\* the messages the turn in flight (or the last turn) added to its entity's history
\* after the user message
TurnMessages ==
  LET h == HistoryOf(chatHistories, turn.activeId)
  IN SubSeq(h, Len(turn.newHistory) + 1, Len(h))

FirstCalls == {i \in DOMAIN calls : calls[i].first}

\* C1: in a single-agent turn the update callback is never invoked with isFirst=true
\* a second time, and every replacement (isFirst=false) invocation comes after the
\* isFirst=true invocation.
C1_FirstChunkOnceBeforeReplace ==
  SingleAgentTurn =>
    /\ Cardinality(FirstCalls) <= 1
    /\ \A i \in DOMAIN calls :
         ~calls[i].first => \E j \in 1..(i - 1) : calls[j].first

\* C2: at every state during and after a single-agent turn the history holds at most
\* one model message created by that turn.
C2_AtMostOneModelMessage ==
  SingleAgentTurn =>
    Cardinality({i \in DOMAIN TurnMessages : TurnMessages[i].role = "model"}) <= 1

\* C3: after a fault of the adapter the turn has a model message carrying the fault
\* text and the error flag, and it has no other model message: a message that was
\* streaming when the fault happened is the one that received the text and the flag.
C3_FaultReusesStreamingMessage ==
  (SingleAgentTurn /\ pc = "idle" /\ error # NoError) =>
    /\ \E i \in DOMAIN TurnMessages :
         /\ TurnMessages[i].role = "model"
         /\ TurnMessages[i].text = error
         /\ TurnMessages[i].isError
    /\ \A i \in DOMAIN TurnMessages :
         TurnMessages[i].role = "model" =>
           TurnMessages[i].text = error /\ TurnMessages[i].isError

\* delta.content of the well-formed events that precede the sentinel, in order
RECURSIVE ExpectedText(_)
ExpectedText(events) ==
  IF events = <<>> \/ Head(events) = "done" THEN <<>>
  ELSE (IF Head(events) \in {"a", "b"} THEN <<Head(events)>> ELSE <<>>)
       \o ExpectedText(Tail(events))

\* C4: when a generic-HTTP stream has been read to its end, the accumulated text is
\* the concatenation of delta.content of all well-formed events before the sentinel,
\* however the transport split the body into chunks.
C4_TextIsConcatenationOfEvents ==
  (HttpTurn /\ pc = "idle" /\ error = NoError /\ requests # <<>>) =>
    http.fullResponse = ExpectedText(http.events)

\* C5: once the decoder has processed the buffer that holds the sentinel it reads the
\* transport no more, and no content of a later chunk is added to the text.
C5_SentinelStopsReadLoop ==
  (HttpTurn /\ http.sawDone) =>
    /\ ~http.readAfterDone
    /\ http.fullResponse = http.textAtDone

\* the contents one chunk adds: those of its data lines that parse, up to the
\* chunk's sentinel line
RECURSIVE WellFormedContents(_)
WellFormedContents(lines) ==
  IF lines = <<>> THEN <<>>
  ELSE IF startsWithData(Head(lines)) /\ Tail(Head(lines)) = <<"DONE">> THEN <<>>
  ELSE (IF startsWithData(Head(lines)) /\ ParseContent(Tail(Head(lines))).ok
        THEN ParseContent(Tail(Head(lines))).content ELSE <<>>)
       \o WellFormedContents(Tail(lines))

\* C6: a malformed data event raises no fault and does not stop decoding: every read
\* adds the contents of all well-formed data lines of its chunk, those after a
\* malformed line included, and leaves the turn streaming with no error.
C6_MalformedEventSkipped ==
  [][ (pc = "reading" /\ http'.pos > http.pos) =>
        /\ http'.fullResponse =
             http.fullResponse
             \o WellFormedContents(Split(SubSeq(http.wire, http.pos + 1, http'.pos)))
        /\ pc' = "reading"
        /\ error' = NoError
        /\ isLoading' ]_vars

\* a malformed event followed by a well-formed one whose content was decoded
C6_Witness ==
  /\ HttpTurn /\ pc = "idle" /\ error = NoError
  /\ http.events = <<"bad", "a">>
  /\ http.fullResponse = <<"a">>

\* C7: in a native tool-calling turn an executor that throws or rejects is turned
\* into an {error} tool response (no execution is left rejected) and does not make
\* the turn end Errored.
C7_ToolFailureIsNotFatal ==
  (turn.kind = "google" /\ gem.exec # <<>>) =>
    /\ \A i \in DOMAIN gem.exec : gem.exec[i].status # "rejected"
    /\ error # ErrToolThrew

\* C8: all executions of a tool-calling turn are started in the one step, and the
\* second generation call is issued, and is in flight, only when every one of them
\* has settled.
C8_FanOutFanIn ==
  turn.kind = "google" =>
    /\ gem.exec # <<>> => DOMAIN gem.exec = DOMAIN gem.functionCalls
    /\ pc = "tools" => \E i \in DOMAIN gem.exec : gem.exec[i].status = "pending"
    /\ (pc \in {"call2", "stream2"} \/ Len(requests) >= 2) =>
         /\ Len(gem.exec) >= 1
         /\ \A i \in DOMAIN gem.exec : gem.exec[i].status = "settled"

\* the second call in flight after two executions that both awaited the network
C8_Witness ==
  /\ turn.kind = "google" /\ pc = "call2"
  /\ Len(gem.exec) = 2
  /\ \A i \in DOMAIN gem.exec : gem.exec[i].tool = "get_financial_data"

\* C9: the contents of the continuation request are the original contents, then one
\* model turn holding the n function calls, then one function turn holding the n
\* responses, and nothing else.
C9_ContinuationContents ==
  (turn.kind = "google" /\ Len(requests) >= 2) =>
    LET c1 == requests[1].contents
        c2 == requests[2].contents
        n == Len(gem.functionCalls)
    IN /\ Len(requests) = 2
       /\ n >= 1
       /\ c1 = geminiContents(turn.newHistory)
       /\ Len(c2) = Len(c1) + 2
       /\ SubSeq(c2, 1, Len(c1)) = c1
       /\ c2[Len(c1) + 1].role = "model"
       /\ c2[Len(c1) + 1].parts =
            [k \in 1..n |-> [functionCall |-> gem.functionCalls[k]]]
       /\ c2[Len(c1) + 2].role = "function"
       /\ Len(c2[Len(c1) + 2].parts) = n
       /\ \A k \in 1..n :
            c2[Len(c1) + 2].parts[k].functionResponse.name = gem.functionCalls[k].name

\* a continuation request after two function calls, on a non-empty prior history
C9_Witness ==
  /\ turn.kind = "google" /\ Len(requests) = 2
  /\ Len(gem.functionCalls) = 2
  /\ Len(turn.newHistory) > 1

TeamRun == turn.kind = "team"

Unresolved(k) ==
  FindIdx(team.allAgents, "id", team.members[k]) = 0

\* the system error messages emitted for the unresolved member at position k
UnresolvedErrors(k) ==
  {i \in DOMAIN calls : /\ calls[i].step = k
                        /\ calls[i].role = "system"
                        /\ calls[i].text[1] = "[Error] Agente con ID "}

GenerationCalls(k) == {i \in DOMAIN requests : requests[i].step = k}

\* the step of member j ended in its catch block
HardFailed(j) ==
  \E i \in DOMAIN calls : calls[i].step = j /\ calls[i].text[1] = "[Error ejecutando '"

\* the loop handled position k: it emitted a message about it
Processed(k) == \E i \in DOMAIN calls : calls[i].step = k

\* the loop has gone past position k: it awaits a later member, or the run is over
\* and no step before k failed
Passed(k) ==
  \/ pc = "teamCall" /\ team.idx > k
  \/ pc = "idle" /\ \A j \in 1..(k - 1) : ~HardFailed(j)

\* C10: when a team run reaches a member whose agentId does not resolve (no earlier
\* step failed), exactly one system error message is emitted for that member, no
\* generation call is made for it, and the run goes on with the member after it.
C10_UnresolvedIsSkipped ==
  TeamRun =>
    \A k \in DOMAIN team.members :
      (Unresolved(k) /\ Passed(k)) =>
        /\ Cardinality(UnresolvedErrors(k)) = 1
        /\ GenerationCalls(k) = {}
        /\ k < Len(team.members) => Processed(k + 1)

\* C10 as first stated: for every position k whose agentId does not resolve there is
\* exactly one system error message and no generation call for k, and every member
\* after k is processed.
C10_UnresolvedAlwaysReported ==
  (TeamRun /\ pc = "idle") =>
    \A k \in DOMAIN team.members :
      Unresolved(k) =>
        /\ Cardinality(UnresolvedErrors(k)) = 1
        /\ GenerationCalls(k) = {}
        /\ \A j \in (k + 1)..Len(team.members) : Processed(j)

\* a finished run of a 3-member team whose second member is unresolved and whose
\* third member was called
C10_Witness ==
  /\ TeamRun /\ pc = "idle"
  /\ team.members = << <<"agent", 1>>, GhostAgentId, <<"agent", 2>> >>
  /\ Cardinality(UnresolvedErrors(2)) = 1
  /\ GenerationCalls(3) # {}

\* the dispatch messages emitted for the member at position k
DispatchMessages(k) ==
  {i \in DOMAIN calls : /\ calls[i].step = k
                        /\ calls[i].role = "system"
                        /\ calls[i].text[1] = "[Asignando tarea a '"}

\* the system error messages emitted for the failed step of member k
StepErrors(k) ==
  {i \in DOMAIN calls : /\ calls[i].step = k
                        /\ calls[i].role = "system"
                        /\ calls[i].text[1] = "[Error ejecutando '"}

IsSuffix(x, y) == Len(x) <= Len(y) /\ SubSeq(y, Len(y) - Len(x) + 1, Len(y)) = x

\* C11: when the generation step of member k fails, one system error message is
\* emitted for member k whose text ends with the failure text (the text the error
\* marker of the results buffer carries), and no generation call and no dispatch
\* message is made for any member after k.
C11_HardFailureAborts ==
  TeamRun =>
    \A k \in DOMAIN team.members :
      HardFailed(k) =>
        /\ pc = "idle"
        /\ Cardinality(StepErrors(k)) = 1
        /\ \A i \in StepErrors(k) :
             /\ ~calls[i].isError
             /\ IsSuffix(SubSeq(calls[i].text, 4, Len(calls[i].text)),
                         team.intermediateResults)
             /\ SubSeq(calls[i].text, 4, Len(calls[i].text))
                  \in FaultMessages \cup {ErrGoogleKey}
        /\ \A j \in (k + 1)..Len(team.members) :
             GenerationCalls(j) = {} /\ DispatchMessages(j) = {}

\* a finished run of a 3-member team whose second member's call was issued and
\* failed with a non-empty failure text, the third member being a resolved agent
C11_Witness ==
  /\ TeamRun /\ pc = "idle"
  /\ Len(team.members) = 3 /\ ~Unresolved(3)
  /\ GenerationCalls(2) # {}
  /\ \E i \in StepErrors(2) : calls[i].text[Len(calls[i].text)] = ErrNetwork[1]

\* the completion messages emitted for member k
Completions(k) ==
  {i \in DOMAIN calls : /\ calls[i].step = k
                        /\ calls[i].role = "system"
                        /\ calls[i].text[1] = "[Tarea de '"}

\* the members whose generation call was issued and has not answered
Outstanding ==
  {k \in DOMAIN team.members :
      GenerationCalls(k) # {} /\ Completions(k) = {} /\ StepErrors(k) = {}}

\* C12: at most one member generation call is outstanding, a member is called at
\* most once, calls are issued in list order, and when the call of member k has been
\* issued the call of every resolved member before k has completed successfully.
C12_MembersRunSequentially ==
  TeamRun =>
    /\ Cardinality(Outstanding) <= 1
    /\ \A k \in DOMAIN team.members : Cardinality(GenerationCalls(k)) <= 1
    /\ \A i, j \in DOMAIN requests : i < j => requests[i].step < requests[j].step
    /\ \A k \in DOMAIN team.members :
         GenerationCalls(k) # {} =>
           \A j \in 1..(k - 1) :
             ~Unresolved(j) => (GenerationCalls(j) # {} /\ Completions(j) # {})

\* the call of the third member is outstanding after the first two completed
C12_Witness ==
  /\ TeamRun /\ pc = "teamCall" /\ team.idx = 3
  /\ Outstanding = {3}
  /\ Completions(1) # {} /\ Completions(2) # {}

\* positions in the results buffer where a result header of a member starts its name
ResultHeaders(buf) == {i \in DOMAIN buf : buf[i] = " Resultado de "}

\* the raw output of the last member that produced a result: what the buffer holds
\* after the last result header (name, blank, separator, newline) up to the end or
\* to the error marker that follows it
LastResult(buf) ==
  LET h == CHOOSE i \in ResultHeaders(buf) : \A j \in ResultHeaders(buf) : j <= i
      from == h + 5
      errs == {i \in from..Len(buf) : buf[i] = " Error de "}
      to == IF errs = {} THEN Len(buf)
            ELSE (CHOOSE i \in errs : \A j \in errs : i <= j) - 3
  IN SubSeq(buf, from, to)

\* the terminal model message of a finished team run
TerminalMessages ==
  {i \in DOMAIN calls : calls[i].role = "model" /\ calls[i].by = "team"}

\* C13: a finished team run in which no step failed and whose last result is not
\* empty has exactly one terminal model message, and its text is the trimmed raw
\* output of the last member that produced a result.
C13_FinalIsLastMemberOutput ==
  (/\ TeamRun /\ pc = "idle"
   /\ ResultHeaders(team.intermediateResults) # {}
   /\ \A k \in DOMAIN team.members : ~HardFailed(k)
   /\ LastResult(team.intermediateResults) # <<>>) =>
    /\ Cardinality(TerminalMessages) = 1
    /\ \A i \in TerminalMessages :
         calls[i].text = LastResult(team.intermediateResults)

\* the inputs that equal `clear` after trimming and lower-casing
ClearCommands == {"clear", " Clear "}

\* C14: with no turn in flight and an active entity, a send whose input is the clear
\* command empties the history of the active entity and nothing else: the other
\* histories are unchanged, no request is issued, no message is appended, no update
\* callback runs, no turn starts and the loading state is not entered.
C14_ClearOnlyEmptiesActiveHistory ==
  [][(/\ input \in ClearCommands
      /\ ~isLoading /\ activeId # NoId /\ activeEntityExists)
     => /\ chatHistories'[activeId] = <<>>
        /\ DOMAIN chatHistories' = DOMAIN chatHistories
        /\ \A k \in DOMAIN chatHistories \ {activeId} :
             chatHistories'[k] = chatHistories[k]
        /\ requests' = requests /\ calls' = calls
        /\ ~isLoading' /\ pc' = "idle" /\ turn' = turn]_vars

\* a clear command was the only thing sent: the active entity's history is empty,
\* no turn was started, and another entity still holds its history
C14_Witness ==
  /\ pc = "idle" /\ turn = NoTurn /\ input = "" /\ now = 2
  /\ chatHistories[activeId] = <<>>
  /\ \E k \in DOMAIN chatHistories : k # activeId /\ chatHistories[k] # <<>>

\* the number of user messages an entity's history holds
UserCount(hist, k) == Cardinality({i \in DOMAIN hist[k] : hist[k][i].role = "user"})

\* C15: while a turn is in flight (a single-agent turn is streaming or a team run is
\* executing) no step starts another turn: the turn record is unchanged, no user
\* message is added to any history, and the request log of the turn in flight is
\* only extended, never restarted.
C15_OneTurnInFlight ==
  [][pc # "idle"
     => /\ turn' = turn
        /\ \A k \in DOMAIN chatHistories :
             UserCount(chatHistories', k) = UserCount(chatHistories, k)
        /\ Len(requests') >= Len(requests)
        /\ SubSeq(requests', 1, Len(requests)) = requests]_vars

\* a second turn is streaming, after a first send that finished and new typing: the
\* form is not rendered and a send is refused
C15_Witness ==
  /\ pc = "reading" /\ isLoading
  /\ turn.userMessage.id = <<"user", 3>>
  /\ ~FooterRendered /\ ~SendGuard

\* a credential, model identifier or endpoint the backend of the turn needs is absent
ConfigMissing ==
  CASE turn.kind = "google" -> ~settings.API_KEY
    [] turn.kind = "openrouter" -> ~settings.openRouterKey \/ ~settings.openRouterModel
    [] turn.kind = "mcp" ->
         ~settings.mcpEndpoint \/ ~settings.mcpApiKey \/ ~settings.mcpModelId
    [] OTHER -> FALSE

\* C16: a single-agent turn on a backend whose configuration is incomplete issues no
\* request and delivers no delta; it is over as soon as it was sent, and the history
\* holds the user message followed by one error-flagged model message.
C16_ConfigErrorBeforeAnyCall ==
  (SingleAgentTurn /\ ConfigMissing) =>
    /\ requests = <<>>
    /\ \A i \in DOMAIN calls : calls[i].by = "catch"
    /\ pc = "idle" /\ ~isLoading
    /\ error # NoError
    /\ Len(TurnMessages) = 1
    /\ HistoryOf(chatHistories, turn.activeId) =
         Append(turn.newHistory,
                Msg(turn.modelMessageId, "model", error, TRUE))

\* a turn on the MCP backend without a model identifier has ended Errored
C16_Witness ==
  /\ turn.kind = "mcp" /\ ~settings.mcpModelId
  /\ pc = "idle" /\ error = ErrMcpConfig
  /\ Len(TurnMessages) = 1 /\ TurnMessages[1].isError

\* text y occurs in text x
Contains(x, y) ==
  \E i \in 0..(Len(x) - Len(y)) : SubSeq(x, i + 1, i + Len(y)) = y

\* the turn has failed on a non-success HTTP response
NonSuccessResponse == HttpTurn /\ pc = "idle" /\ http.errorBody # NoBody

\* C17: after a non-success response the error of the turn contains the provider's
\* error.message when the body is a JSON object that carries one, and the HTTP status
\* text in every other case, a body that is not JSON included.
C17_ErrorMessageOrStatusText ==
  NonSuccessResponse =>
    /\ error # NoError
    /\ IF http.errorBody.json /\ http.errorBody.message # <<>>
       THEN Contains(error, http.errorBody.message)
       ELSE Contains(error, StatusText)

\* the provider's message of the non-success response mentions the data policy
PolicyRejection ==
  /\ NonSuccessResponse
  /\ http.errorBody.json
  /\ \E i \in DOMAIN http.errorBody.message : http.errorBody.message[i] = "data policy"

\* C18: after a non-success response whose provider message mentions the data
\* policy, the error of an OpenRouter turn contains the provider message followed by
\* the remediation hint; the error of an MCP turn contains the provider message and
\* no hint.
C18_PolicyHintOnOpenRouterOnly ==
  PolicyRejection =>
    /\ Contains(error, http.errorBody.message)
    /\ turn.kind = "openrouter" => Contains(error, http.errorBody.message \o PolicyHint)
    /\ turn.kind = "mcp" => ~Contains(error, PolicyHint)
    /\ Len(TurnMessages) >= 1
    /\ TurnMessages[Len(TurnMessages)].text = error
    /\ TurnMessages[Len(TurnMessages)].isError

\* C18 as first stated: on either generic-HTTP backend the error contains both the
\* provider message and the remediation hint.
C18_PolicyHintOnEveryBackend ==
  PolicyRejection =>
    Contains(error, http.errorBody.message) /\ Contains(error, PolicyHint)

\* an OpenRouter turn rejected for the data policy shows the hint
C18_Witness ==
  /\ PolicyRejection /\ turn.kind = "openrouter"
  /\ Contains(error, PolicyHint)

\* the agent of the turn has the native-search marker among its tools
HasSearchMarker ==
  /\ turn.kind = "google"
  /\ \E i \in DOMAIN agents[turn.agent].tools :
       agents[turn.agent].tools[i] = "native_google_search"

\* C19: a native-backend turn of an agent that has the native-search marker, whatever
\* its other tools, issues one generation request (none when the API key is missing);
\* that request has search grounding enabled and carries no function declarations,
\* no tool execution is started and no continuation request follows.
C19_NativeSearchIsExclusive ==
  HasSearchMarker =>
    /\ Len(requests) = (IF settings.API_KEY THEN 1 ELSE 0)
    /\ \A i \in DOMAIN requests :
         /\ requests[i].tools.kind = "googleSearch"
         /\ requests[i].tools.declarations = <<>>
    /\ gem.exec = <<>>
    /\ pc \in {"idle", "callS", "streamS"}

\* the search turn of an agent that also enables a custom tool has streamed a text
C19_Witness ==
  /\ HasSearchMarker
  /\ Len(agents[turn.agent].tools) > 1
  /\ pc = "idle" /\ error = NoError
  /\ \E i \in DOMAIN calls : calls[i].by = "adapter"

\* the turn has produced a message with isError set
ErrorFlagged == \E i \in DOMAIN calls : calls[i].isError

\* a tool execution of the turn has thrown or rejected
ToolFailed == turn.kind = "google" /\ AnyRejected(gem.exec)

\* a step of the team run has failed on a missing API key or on its backend call
TeamStepError == TeamRun /\ \E k \in DOMAIN team.members : HardFailed(k)

\* C20: a configuration error or a backend error of a turn, single-agent or team,
\* produces an error-flagged message; a tool execution failure and an unresolved
\* team reference produce none.
C20_OnlyConfigAndBackendErrorsFlag ==
  /\ (SingleAgentTurn /\ ConfigMissing) => ErrorFlagged
  /\ TeamStepError => ErrorFlagged
  /\ ToolFailed => ~ErrorFlagged
  /\ TeamRun =>
       \A k \in DOMAIN team.members :
         \A i \in UnresolvedErrors(k) : ~calls[i].isError

\* the adapter of a single-agent turn has returned without a fault
ReturnedSuccessfully ==
  /\ SingleAgentTurn /\ pc = "idle"
  /\ \A i \in DOMAIN calls : calls[i].by # "catch"

\* C21: when the adapter of a single-agent turn has returned without a fault, the
\* update callback was invoked at least once and the history holds a model message
\* after the user message.
C21_SuccessDeliversAMessage ==
  ReturnedSuccessfully =>
    /\ calls # <<>>
    /\ \E i \in DOMAIN TurnMessages : TurnMessages[i].role = "model"

\* the tokens of the style guides of all agents
StyleTokens ==
  UNION {{agents[i].styleGuide[j] : j \in DOMAIN agents[i].styleGuide} : i \in DOMAIN agents}

\* the texts a request carries: its system instruction, the text of its messages or
\* parts, and the names of the tools it declares
RequestTexts(r) ==
  IF r.to \in {"openrouter", "mcp"}
  THEN {r.messages[i].content : i \in DOMAIN r.messages}
  ELSE UNION {{r.contents[i].parts[j].text :
                 j \in {k \in DOMAIN r.contents[i].parts :
                          "text" \in DOMAIN r.contents[i].parts[k]}} :
              i \in DOMAIN r.contents}
       \cup (IF r.api = "generateContentStream"
             THEN {r.systemInstruction, r.tools.declarations}
             ELSE {})

Tokens(text) == {text[i] : i \in DOMAIN text}

\* the agent a request is sent for
RequestAgent(r) ==
  IF r.api = "generateContent"
  THEN team.allAgents[FindIdx(team.allAgents, "id", team.members[r.step])]
  ELSE agents[turn.agent]

\* C22: no request to any backend depends on a style guide: the system instruction
\* of a native request and the system message of a generic-HTTP request are the
\* agent's instructions and nothing else, the prompt of a team member call ends with
\* the member's instructions, and no text of any request holds a token of any
\* agent's style guide.
C22_StyleGuideNeverTransmitted ==
  \A n \in DOMAIN requests :
    LET r == requests[n]
        r0 == r @@ [api |-> "fetch"]
        a == RequestAgent(r0)
    IN /\ \A text \in RequestTexts(r0) : Tokens(text) \cap StyleTokens = {}
       /\ r0.api = "generateContentStream" => r.systemInstruction = a.instructions
       /\ r0.api = "fetch" => r.messages[1].content = a.instructions
       /\ r0.api = "generateContent" =>
            IsSuffix(<<" Tu tarea actual es: ">> \o a.instructions,
                     r.contents[1].parts[1].text)

\* the continuation request of a tool-calling turn of an agent that has a style guide
C22_Witness ==
  /\ turn.kind = "google" /\ Len(requests) = 2
  /\ agents[turn.agent].styleGuide # <<>>

\* the member list without any entry equal to id, built entry by entry
RECURSIVE Without(_, _)
Without(members, id) ==
  IF members = <<>> THEN <<>>
  ELSE IF Head(members) = id THEN Without(Tail(members), id)
       ELSE <<Head(members)>> \o Without(Tail(members), id)

IdsOf(s) == {s[i].id : i \in DOMAIN s}

\* C23: a step that deletes an agent leaves the teams' ids (and their order) as
\* they were, and leaves every team with exactly its earlier members minus every
\* entry that references the deleted agent, in their earlier order; a team left
\* with no member is still there.
C23_DeleteAgentPrunesTeams ==
  [][ \A id \in IdsOf(agents) \ IdsOf(agents') :
        /\ Len(teams') = Len(teams)
        /\ \A t \in DOMAIN teams :
             /\ teams'[t].id = teams[t].id
             /\ teams'[t].members = Without(teams[t].members, id) ]_vars

\* an agent was deleted, the second team lost its only member and is still there,
\* and the first team kept two or more members
C23_Witness ==
  /\ Len(agents) = 2
  /\ \E t \in DOMAIN teams : teams[t].id = <<"team", 2>> /\ teams[t].members = <<>>
  /\ \E t \in DOMAIN teams : teams[t].id = <<"team", 1>> /\ Len(teams[t].members) >= 2

\* C24: the loading flag is set exactly while a turn is in flight (from the
\* accepted send until the adapter returned or faulted), and with backends that
\* answer in the end every turn in flight leads to a state where the turn is over,
\* the loading flag is false and the send guard no longer refuses for loading.
C24_TurnEndsAndUnlocks ==
  /\ [](isLoading <=> pc # "idle")
  /\ (isLoading ~> (pc = "idle" /\ ~isLoading /\ FooterRendered))

\* an HTTP turn that faulted after it had streamed is over and unlocked
C24_Witness ==
  /\ HttpTurn /\ pc = "idle" /\ ~isLoading
  /\ error # NoError /\ Len(calls) >= 2

\* the contents of all data lines of one buffer that parse, the sentinel line
\* contributing nothing and ending nothing
RECURSIVE SiblingContents(_)
SiblingContents(lines) ==
  IF lines = <<>> THEN <<>>
  ELSE (IF startsWithData(Head(lines)) /\ ParseContent(Tail(Head(lines))).ok
        THEN ParseContent(Tail(Head(lines))).content ELSE <<>>)
       \o SiblingContents(Tail(lines))

HasSentinelLine(lines) ==
  \E i \in DOMAIN lines : startsWithData(lines[i]) /\ Tail(lines[i]) = <<"DONE">>

\* C25: a read whose buffer holds the sentinel adds the contents of every
\* well-formed data event of that buffer, those positioned before the sentinel and
\* those positioned after it.
C25_SentinelKeepsSiblings ==
  [][ (pc = "reading" /\ http'.pos > http.pos
       /\ HasSentinelLine(Split(SubSeq(http.wire, http.pos + 1, http'.pos)))) =>
        http'.fullResponse =
          http.fullResponse
          \o SiblingContents(Split(SubSeq(http.wire, http.pos + 1, http'.pos))) ]_vars

IsPrefix(x, y) == Len(x) <= Len(y) /\ SubSeq(y, 1, Len(x)) = x

\* the native tool-call turn is over and no fault was caught
ToolTurnReturned ==
  /\ turn.kind = "google" /\ pc = "idle" /\ Len(gem.functionCalls) > 0
  /\ Len(requests) = 2
  /\ \A i \in DOMAIN calls : calls[i].by # "catch"

\* the status line naming every requested tool with its arguments
StatusLine ==
  <<"[Usando herramienta: ">>
  \o Join([i \in DOMAIN gem.functionCalls |->
             <<gem.functionCalls[i].name, "(", gem.functionCalls[i].args, ")">>], <<", ">>)
  \o <<"...]">>

\* C26: when the first call returned function calls and the turn went through its
\* second call, the status line naming every tool with its arguments was emitted:
\* some update carries it, and exactly one message of the turn shows it, whatever
\* the second call streamed.
C26_StatusLineEmittedOnce ==
  ToolTurnReturned =>
    /\ \E i \in DOMAIN calls : IsPrefix(StatusLine, calls[i].text)
    /\ Cardinality({i \in DOMAIN TurnMessages :
                      IsPrefix(StatusLine, TurnMessages[i].text)}) = 1

\* C27: every update the second call produces carries one and the same id, which
\* is not the id of the first call's message; it is an append when no earlier
\* update carried that id and a replacement otherwise; its text is the status line
\* followed by the second-call text accumulated so far, and the history shows it.
C27_SecondCallUpdates ==
  [][ (pc = "stream2" /\ calls' # calls /\ calls'[Len(calls')].by = "adapter") =>
        LET c == calls'[Len(calls')]
            before == HistoryOf(chatHistories, turn.activeId)
            after == HistoryOf(chatHistories', turn.activeId)
        IN /\ Len(calls') = Len(calls) + 1
           /\ c.id = gem.finalMessageId
           /\ gem'.finalMessageId = gem.finalMessageId
           /\ c.id # turn.modelMessageId
           /\ c.first <=> (\A j \in DOMAIN calls : calls[j].id # c.id)
           /\ Len(gem'.finalResponseText) > Len(gem.finalResponseText)
           /\ IsPrefix(gem.finalResponseText, gem'.finalResponseText)
           /\ c.text = StatusLine \o <<"\n\n">> \o gem'.finalResponseText
           /\ IF c.first
              THEN after = Append(before, Msg(c.id, "model", c.text, FALSE))
              ELSE /\ Len(after) = Len(before)
                   /\ after[Len(after)] = Msg(c.id, "model", c.text, FALSE) ]_vars

\* the second call has produced two updates after the first call had produced one
C27_Witness ==
  /\ turn.kind = "google" /\ pc = "stream2"
  /\ Len(gem.finalResponseText) = 2
  /\ gem.fullResponse # <<>>
  /\ Len(calls) = 3

\* the native search turn is over, no fault was caught, and the grounding metadata
\* the stream returned holds an entry with a URL
SearchReturnedSources ==
  /\ turn.kind = "google" /\ gem.useGoogleSearch /\ pc = "idle" /\ requests # <<>>
  /\ \A i \in DOMAIN calls : calls[i].by # "catch"
  /\ \E i \in DOMAIN gem.groundingMetadata : gem.groundingMetadata[i].uri # ""

\* C28: after a search stream that returned URL-bearing grounding entries, the
\* turn has one model message, its text ends with the formatted source list, and
\* the list came as a replacement update on the turn's message id, also when no
\* text delta came before it.
C28_SourcesEndTheMessage ==
  SearchReturnedSources =>
    /\ calls # <<>>
    /\ ~calls[Len(calls)].first
    /\ calls[Len(calls)].id = turn.modelMessageId
    /\ Cardinality({i \in DOMAIN TurnMessages : TurnMessages[i].role = "model"}) = 1
    /\ \A i \in DOMAIN TurnMessages :
         TurnMessages[i].role = "model" =>
           /\ TurnMessages[i].id = turn.modelMessageId
           /\ IsSuffix(<<"\n\n---\n**Fuentes:**\n">>
                       \o Join(sourcesOf(gem.groundingMetadata), <<"\n">>),
                       TurnMessages[i].text)

\* the positions of the source-list entries of a text that link to url
EntriesFor(text, url) ==
  {k \in 1..(Len(text) - 1) : text[k] = "](" /\ text[k + 1] = url}

\* C29: in the source list the search path appends, every distinct URL of the
\* grounding entries appears once, and an entry without a URL does not appear: the
\* list has as many entries as the grounding entries have distinct URLs.
C29_SourcesDeduplicatedByUrl ==
  (SearchReturnedSources /\ calls # <<>>) =>
    LET text == calls[Len(calls)].text
        urls == {gem.groundingMetadata[i].uri : i \in DOMAIN gem.groundingMetadata} \ {""}
    IN /\ \A u \in urls : Cardinality(EntriesFor(text, u)) = 1
       /\ Cardinality({k \in DOMAIN text : text[k] = "* ["}) = Cardinality(urls)

\* C30: a finished team run whose member list is empty or whose members are all
\* unresolved ends with the fixed no-result message: the run emitted exactly one
\* model message, its text is that message, and it is the last message of the
\* team's history.
C30_NoResultFallback ==
  (TeamRun /\ pc = "idle" /\ \A k \in DOMAIN team.members : Unresolved(k)) =>
    LET h == HistoryOf(chatHistories, turn.activeId)
    IN /\ Cardinality(TerminalMessages) = 1
       /\ \A i \in TerminalMessages :
            calls[i].text = <<"No se pudo generar un resultado final.">>
       /\ Cardinality({i \in DOMAIN TurnMessages : TurnMessages[i].role = "model"}) = 1
       /\ h[Len(h)].role = "model"
       /\ h[Len(h)].text = <<"No se pudo generar un resultado final.">>
       /\ ~h[Len(h)].isError

\* a finished run of a team whose two members are both unresolved
C30_Witness ==
  /\ TeamRun /\ pc = "idle"
  /\ team.members = <<GhostAgentId, GhostAgentId>>
  /\ Cardinality(UnresolvedErrors(1)) = 1 /\ Cardinality(UnresolvedErrors(2)) = 1
  /\ TerminalMessages # {}

\* the names that tag the result headers of a text, in the order of the text
RECURSIVE TaggedNames(_)
TaggedNames(text) ==
  IF Len(text) < 2 THEN <<>>
  ELSE (IF Head(text) = " Resultado de " THEN <<text[2]>> ELSE <<>>)
       \o TaggedNames(Tail(text))

\* the names of the members before position k whose step completed, in list order
RECURSIVE SucceededNames(_)
SucceededNames(k) ==
  IF k <= 1 THEN <<>>
  ELSE SucceededNames(k - 1)
       \o (IF Completions(k - 1) # {}
           THEN <<team.allAgents[FindIdx(team.allAgents, "id", team.members[k - 1])].name>>
           ELSE <<>>)

\* what a member prompt holds between the line that announces the earlier results
\* and the line that announces the member's task
ResultsSection(prompt) ==
  LET from == CHOOSE i \in DOMAIN prompt :
                prompt[i] = " El resultado de los pasos anteriores es: "
      to == CHOOSE i \in DOMAIN prompt :
              /\ prompt[i] = " Tu tarea actual es: "
              /\ \A j \in DOMAIN prompt : prompt[j] = " Tu tarea actual es: " => j <= i
  IN SubSeq(prompt, from + 1, to - 1)

\* C31: the prompt of every member call holds the team objective, the user's
\* request and the member's instructions; its results section is the first-step
\* marker exactly when no earlier step completed, and otherwise it is the results
\* buffer as it stood, whose headers name the earlier completed members in list
\* order.
C31_PromptCarriesEarlierResults ==
  TeamRun =>
    \A n \in DOMAIN requests :
      LET k == requests[n].step
          prompt == requests[n].contents[1].parts[1].text
          agent == team.allAgents[FindIdx(team.allAgents, "id", team.members[k])]
          section == ResultsSection(prompt)
      IN /\ Contains(prompt, team.objective)
         /\ Contains(prompt, team.initialPrompt)
         /\ Contains(prompt, <<"Eres el agente '", agent.name>>)
         /\ IsSuffix(<<" Tu tarea actual es: ">> \o agent.instructions, prompt)
         /\ (section = <<"(Este es el primer paso)">>) <=> (SucceededNames(k) = <<>>)
         /\ SucceededNames(k) # <<>> =>
              /\ IsPrefix(section, team.intermediateResults)
              /\ TaggedNames(section) = SucceededNames(k)

\* the third member of a team was called after the two before it had completed
C31_Witness ==
  /\ TeamRun /\ Len(requests) = 3
  /\ Completions(1) # {} /\ Completions(2) # {}
  /\ requests[3].step = 3

\* C32: in a team run the first update is the system message that announces the
\* team's name and objective, every update is an append made by the run and the
\* history shows the updates in their order; no model message is emitted while the
\* run is in flight, and a finished run ends with the completion system message
\* followed by its only model message.
C32_TeamRunMessageFrame ==
  TeamRun =>
    /\ calls # <<>>
    /\ calls[1].role = "system"
    /\ calls[1].text = <<"[Equipo '", team.name, "' en marcha... Objetivo: ">>
                       \o team.objective
    /\ \A i \in DOMAIN calls : calls[i].first /\ calls[i].by = "team"
    /\ TurnMessages = [i \in DOMAIN calls |->
                         Msg(calls[i].id, calls[i].role, calls[i].text, calls[i].isError)]
    /\ pc # "idle" => \A i \in DOMAIN calls : calls[i].role = "system"
    /\ pc = "idle" =>
         /\ Len(calls) >= 3
         /\ calls[Len(calls)].role = "model"
         /\ calls[Len(calls) - 1].role = "system"
         /\ calls[Len(calls) - 1].text = <<"[Ejecucion del equipo finalizada]">>
         /\ \A i \in 1..(Len(calls) - 1) : calls[i].role = "system"

\* a run that was aborted by a failed step after an unresolved member has ended
C32_Witness ==
  /\ TeamRun /\ pc = "idle"
  /\ \E k \in DOMAIN team.members : HardFailed(k)
  /\ \E k \in DOMAIN team.members : Unresolved(k)
  /\ calls[Len(calls)].role = "model"

\* C33: a team run executes the member list and the agents the application held
\* when the run was sent: the list and the agents of the run are those of the send,
\* no step taken while the run is in flight (a team edit, an agent deletion
\* included) changes them, and every member call is issued for a later position of
\* that list than the calls before it and addresses the agent the list names there.
C33_MembersFixedAtSend ==
  [][ /\ turn' # turn =>
           /\ team'.members = teams[FindIdx(teams, "id", activeId)].members
           /\ team'.allAgents = agents
      /\ pc = "teamCall" =>
           /\ team'.members = team.members
           /\ team'.allAgents = team.allAgents
      /\ \A n \in DOMAIN requests' :
           n > Len(requests) \/ turn' # turn =>
             LET k == requests'[n].step
                 prompt == requests'[n].contents[1].parts[1].text
             IN /\ k \in DOMAIN team'.members
                /\ \A m \in 1..(n - 1) : requests'[m].step < k
                /\ \E a \in DOMAIN team'.allAgents :
                     /\ team'.allAgents[a].id = team'.members[k]
                     /\ IsPrefix(<<"Eres el agente '", team'.allAgents[a].name>>, prompt)
    ]_vars

\* a second member was called after a member had been added to the team's list
\* while the run was in flight (a save is possible only before the first call has
\* answered)
C33_Witness ==
  /\ TeamRun /\ Len(requests) >= 2
  /\ \E t \in DOMAIN teams :
       teams[t].id = team.activeId /\ Len(teams[t].members) > Len(team.members)

\* C34: the request of a generic-HTTP turn carries one system message with the agent's
\* instructions, then every message the history held before the send, in order, with
\* role user kept and every other role sent as assistant, then one user message with
\* the new text; the user message of the turn in flight is there once, not twice.
C34_HttpMessagesArray ==
  (turn.kind \in {"openrouter", "mcp"} /\ requests # <<>>) =>
    LET messages == requests[1].messages
        prior == turn.chatHistories
    IN /\ Len(requests) = 1
       /\ Len(messages) = Len(prior) + 2
       /\ messages[1] = [role |-> "system", content |-> turn.activeAgent.instructions]
       /\ \A i \in DOMAIN prior :
            /\ messages[i + 1].content = prior[i].text
            /\ messages[i + 1].role
                 = (IF prior[i].role = "user" THEN "user" ELSE "assistant")
       /\ messages[Len(messages)] = [role |-> "user", content |-> turn.userMessage.text]
       /\ Cardinality({i \in 2..Len(messages) : messages[i].content = turn.userMessage.text})
            = 1 + Cardinality({i \in DOMAIN prior : prior[i].text = turn.userMessage.text})

C34_Witness ==
  /\ turn.kind \in {"openrouter", "mcp"}
  /\ requests # <<>>
  /\ Len(requests[1].messages) = 4
  /\ \E i \in DOMAIN turn.chatHistories : turn.chatHistories[i].role = "model"
  /\ requests[1].messages[3].role = "assistant"

\* C35: in every entity's history no two messages carry the same id, after
\* single-agent turns, team runs and faulted turns, also when several messages
\* were created at one reading of the clock.
C35_MessageIdsUnique ==
  \A k \in DOMAIN chatHistories :
    \A i, j \in DOMAIN chatHistories[k] :
      chatHistories[k][i].id = chatHistories[k][j].id => i = j

\* the updates a step made: all of them when the step is the send, those added to
\* the log otherwise
NewCalls ==
  IF turn' # turn THEN calls' ELSE SubSeq(calls', Len(calls) + 1, Len(calls'))

\* C36: every update of a turn goes to the history of the entity that was active at
\* the send, also when the user has selected another entity meanwhile: the send
\* records the active entity, every appended message shows in that entity's
\* history, and a step of the turn leaves every other entity's history as it was.
C36_UpdatesGoToEntityOfSend ==
  [][ (turn' # turn \/ pc # "idle") =>
        /\ turn' # turn => turn'.activeId = activeId
        /\ turn' = turn => turn.activeId \in DOMAIN chatHistories
        /\ DOMAIN chatHistories' = DOMAIN chatHistories
        /\ \A k \in DOMAIN chatHistories \ {turn'.activeId} :
             chatHistories'[k] = chatHistories[k]
        /\ \A i \in DOMAIN NewCalls :
             NewCalls[i].first =>
               \E m \in DOMAIN chatHistories'[turn'.activeId] :
                 /\ chatHistories'[turn'.activeId][m].id = NewCalls[i].id
                 /\ chatHistories'[turn'.activeId][m].role = NewCalls[i].role ]_vars

C36_Witness ==
  /\ pc # "idle"
  /\ activeId # turn.activeId
  /\ calls # <<>>
  /\ TurnMessages # <<>>
  /\ chatHistories[activeId] = OtherHistory

ExistingIds == IdsOf(agents) \cup IdsOf(teams)

\* C37: the keys of the chat-history map are ids of agents and teams that exist; an
\* entity that was deleted has no entry, also when it was deleted while its turn
\* was in flight and updates of that turn arrived afterwards.
C37_HistoryKeysExist ==
  DOMAIN chatHistories \subseteq ExistingIds

\* C38: the active id is null or the id of an agent or team that exists, after the
\* initial load and after every creation, edit and deletion; and a deletion of the
\* active entity leaves the selection on an entity that still exists.
C38_ActiveIdExists ==
  /\ [](activeId = NoId \/ activeId \in ExistingIds)
  /\ [][ (activeId \in ExistingIds /\ activeId \notin IdsOf(agents') \cup IdsOf(teams'))
          => /\ activeId' # activeId
             /\ activeId' \in IdsOf(agents') \cup IdsOf(teams') ]_vars

C38_Witness ==
  /\ activeId \in ExistingIds
  /\ Len(agents) = 1 /\ Len(teams) = 0
  /\ agents[1].id \notin AgentIds

\* the tools enabled for the agent of the turn
EnabledTools == {turn.activeAgent.tools[i] : i \in DOMAIN turn.activeAgent.tools}

\* C39: in a native tool-calling turn an executor is invoked only for a tool that
\* is enabled for the agent; a function call that names a registry tool the agent
\* has not enabled is answered with the error response and nothing is executed
\* for it.
C39_OnlyEnabledToolsExecuted ==
  (turn.kind = "google" /\ gem.exec # <<>>) =>
    \A i \in DOMAIN gem.exec :
      /\ gem.exec[i].tool # "" => gem.exec[i].tool \in EnabledTools
      /\ (ToolByName(gem.functionCalls[i].name) # 0
          /\ toolRegistry[ToolByName(gem.functionCalls[i].name)].id \notin EnabledTools)
         => /\ gem.exec[i].tool = ""
            /\ gem.exec[i].result = NotFoundResponse(gem.functionCalls[i].name)

\* the parts of the function turn of the continuation request
FunctionTurnParts == requests[2].contents[Len(requests[2].contents)].parts

\* C40: the function turn of the continuation request holds one response per
\* requested call; the i-th response carries the name of the i-th call and is the
\* outcome of the i-th execution, whatever the order in which the executions
\* completed; a call that names an unknown tool or one without an executor has the
\* error response at its position.
C40_ResponsesInCallOrder ==
  (turn.kind = "google" /\ Len(requests) >= 2) =>
    /\ Len(FunctionTurnParts) = Len(gem.functionCalls)
    /\ \A k \in DOMAIN gem.functionCalls :
         LET fc == gem.functionCalls[k]
             r == FunctionTurnParts[k].functionResponse
         IN /\ r.name = fc.name
            /\ IF ToolByName(fc.name) # 0 /\ toolRegistry[ToolByName(fc.name)].execute
               THEN /\ r.response.kind = "result"
                    /\ r.response.value
                         \in ExecuteValues(toolRegistry[ToolByName(fc.name)].id)
               ELSE FunctionTurnParts[k] = NotFoundResponse(fc.name)

\* the second call completed at once (an error response or a chart) and the first
\* awaited the network
C40_Witness ==
  /\ turn.kind = "google" /\ Len(requests) = 2
  /\ Len(gem.functionCalls) = 2
  /\ gem.functionCalls[1] = FunctionCall("get_financial_data", "ok")
  /\ gem.functionCalls[2].name \in {"no_such_tool", "google_search", "create_chart"}
  /\ FunctionTurnParts[1].functionResponse.response.value = "data"

====
